---- MODULE Spec2Model ----
(***************************************************************************)
(* Retrieval pipeline of download-gdfiles: the download GET handler of the *)
(* app router (route.ts 10-390) and the legacy pages handler (route.ts     *)
(* 395-630), each one request from its arrival to its single response.     *)
(*                                                                         *)
(* Strings.  A MIME type, a content-type header and a format are TLA+      *)
(* strings; the substring tests the code makes on them (includes,          *)
(* startsWith) are the sets of the model's strings that pass the test.     *)
(* The empty string stands for an absent value (null, undefined, ""): the  *)
(* code only ever tests these for truthiness.                              *)
(* A file name is a sequence of tokens: "." and "/" stand for themselves,  *)
(* any other token is a non-empty run of characters holding neither; no    *)
(* run of tokens of the model spells another token.                        *)
(*                                                                         *)
(* Upstream.  Every axios.get is two steps: the request is issued (it is   *)
(* then in flight) and it is answered.  The answer is any of: a transport  *)
(* failure, a non-200 status, a 200 with a declared content type and a     *)
(* body of some length, or a 200 without a body (the code tests            *)
(* `response.data` for truthiness).  axios rejects the promise on a        *)
(* transport failure and on a status its validateStatus refuses.           *)
(***************************************************************************)
EXTENDS Integers, Sequences, FiniteSets, TLC

VARIABLES
    h,          \* which handler serves the request: "GET" or "handler"
    fileId,     \* query parameter fileId ("" when missing)
    format,     \* query parameter format ("" when missing)
    forcePdf,   \* query parameter forcePdf === "true"
    viewOnly,   \* query parameter viewOnly === "true"
    pc,         \* position of the handler: "start", the request awaited, "done"
    fileName,   \* GET: let fileName; handler: fileMetadata.name
    mimeType,   \* GET: let mimeType; handler: fileMetadata.mimeType
    fileResponse, \* GET: the primary direct response kept while the alternate is awaited
    exportFormat, \* the format parameter of the export request ("" before it is set)
    inflight,   \* the upstream request in flight ("none" when there is none)
    log,        \* the upstream requests issued so far, in order
    stat,       \* the answers to them: a status, or 0 for a transport failure
    out,        \* the response sent to the caller (kind "none" until sent)
    call        \* a function applied on its own: its arguments and its result

vars == <<h, fileId, format, forcePdf, viewOnly, pc, fileName, mimeType,
          fileResponse, exportFormat, inflight, log, stat, out, call>>

----------------------------------------------------------------------------
(* Program constants *)

\* route.ts 173: printResponse.data.byteLength > 1000
MinBytes == 1000
\* route.ts 297, 317: byteLength < 1000000, byteLength > 1000000
SizeCeiling == 1000000

----------------------------------------------------------------------------
(* Domains of the inputs *)

GoogleAppsMimes == {"application/vnd.google-apps.document",
                    "application/vnd.google-apps.spreadsheet",
                    "application/vnd.google-apps.presentation",
                    "application/vnd.google-apps.drawing"}

\* MIME types the metadata endpoint may report ("" : none reported)
MetaMimes == GoogleAppsMimes \cup {"", "application/pdf", "text/csv"}

\* content-type headers an upstream answer may declare ("" : no header)
CTypes == {"", "text/html; charset=utf-8", "application/xhtml+xml",
           "application/pdf", "text/csv"}

\* body lengths of an upstream answer
Sizes == {50, 1000, 40000, 1000000, 2000000}

\* format query parameter ("" : not given)
Formats == {"", "xlsx", "odt"}

\* the double quote as a token of a name or of a header
Quote == "\""

\* names the metadata endpoint may report (<<>> : none reported)
MetaNames == {<< >>, <<"data">>, <<"Report", ".", "pdf">>, <<"my", Quote, "file">>}

Statuses == {200, 302, 404, 500}

\* an upstream answer
Resp(e, s, c, b, d) == [err |-> e, status |-> s, ctype |-> c, bytes |-> b, data |-> d]
NoResp == Resp(FALSE, 0, "", 0, FALSE)
TransportError == Resp(TRUE, 0, "", 0, FALSE)

\* what a request can be answered with; the code reads the headers and the body
\* of a 200 answer only
Answers ==
    {TransportError}
    \cup {Resp(FALSE, s, "", 0, FALSE) : s \in Statuses \ {200}}
    \cup {Resp(FALSE, 200, "", 0, FALSE)}
    \cup {Resp(FALSE, 200, c, b, TRUE) : c \in CTypes, b \in Sizes}

\* what a request of the legacy handler can be answered with: the body is a
\* stream the handler pipes without reading it
StreamSizes == {50, 40000}
StreamAnswers ==
    {TransportError}
    \cup {Resp(FALSE, s, "", 0, FALSE) : s \in Statuses \ {200}}
    \cup {Resp(FALSE, 200, c, b, TRUE) : c \in CTypes, b \in StreamSizes}

\* what the metadata request can be answered with
MetaAnswers ==
    {[err |-> TRUE, status |-> 0, name |-> << >>, mimeType |-> ""]}
    \cup {[err |-> FALSE, status |-> s, name |-> << >>, mimeType |-> ""] :
            s \in {404, 500}}
    \cup {[err |-> FALSE, status |-> 200, name |-> n, mimeType |-> m] :
            n \in MetaNames, m \in MetaMimes}

----------------------------------------------------------------------------
(* String tests *)

\* s.includes("text/html")
IncludesTextHtml(s) == s \in {"text/html", "text/html; charset=utf-8"}
\* s.includes("application/xhtml+xml")
IncludesXhtml(s) == s \in {"application/xhtml+xml"}
\* s.includes("pdf")
IncludesPdf(s) == s \in {"application/pdf", "application/x-pdf"}
\* s.startsWith("application/vnd.google-apps")
StartsWithGoogleApps(s) == s \in GoogleAppsMimes

\* a || b on strings
OrElse(a, b) == IF a # "" THEN a ELSE b

----------------------------------------------------------------------------
(* mimeToExtension, route.ts 45-111 ("" : no entry) *)

mimeToExtension ==
    ("application/pdf" :> "pdf") @@
    ("application/vnd.openxmlformats-officedocument.wordprocessingml.document" :> "docx") @@
    ("application/msword" :> "doc") @@
    ("application/vnd.oasis.opendocument.text" :> "odt") @@
    ("application/rtf" :> "rtf") @@
    ("text/plain" :> "txt") @@
    ("text/html" :> "html") @@
    ("text/css" :> "css") @@
    ("text/javascript" :> "js") @@
    ("text/markdown" :> "md") @@
    ("application/vnd.openxmlformats-officedocument.spreadsheetml.sheet" :> "xlsx") @@
    ("application/vnd.ms-excel" :> "xls") @@
    ("application/vnd.oasis.opendocument.spreadsheet" :> "ods") @@
    ("text/csv" :> "csv") @@
    ("text/tab-separated-values" :> "tsv") @@
    ("application/vnd.openxmlformats-officedocument.presentationml.presentation" :> "pptx") @@
    ("application/vnd.ms-powerpoint" :> "ppt") @@
    ("application/vnd.oasis.opendocument.presentation" :> "odp") @@
    ("image/jpeg" :> "jpg") @@
    ("image/png" :> "png") @@
    ("image/gif" :> "gif") @@
    ("image/bmp" :> "bmp") @@
    ("image/webp" :> "webp") @@
    ("image/svg+xml" :> "svg") @@
    ("image/tiff" :> "tiff") @@
    ("audio/mpeg" :> "mp3") @@
    ("audio/wav" :> "wav") @@
    ("audio/ogg" :> "ogg") @@
    ("audio/flac" :> "flac") @@
    ("audio/aac" :> "aac") @@
    ("video/mp4" :> "mp4") @@
    ("video/mpeg" :> "mpeg") @@
    ("video/webm" :> "webm") @@
    ("video/quicktime" :> "mov") @@
    ("video/x-msvideo" :> "avi") @@
    ("application/zip" :> "zip") @@
    ("application/x-zip-compressed" :> "zip") @@
    ("application/x-rar-compressed" :> "rar") @@
    ("application/x-tar" :> "tar") @@
    ("application/x-7z-compressed" :> "7z") @@
    ("application/gzip" :> "gz") @@
    ("application/vnd.google-apps.document" :> "docx") @@
    ("application/vnd.google-apps.spreadsheet" :> "xlsx") @@
    ("application/vnd.google-apps.presentation" :> "pptx") @@
    ("application/vnd.google-apps.drawing" :> "png") @@
    ("application/vnd.google-apps.form" :> "html") @@
    ("application/vnd.google-apps.script" :> "json")

\* mutant: the lookup finds nothing
MimeExt_None(contentType) == ""

\* mimeToExtension[contentType]
MimeExt(contentType) ==
    IF contentType \in DOMAIN mimeToExtension THEN mimeToExtension[contentType] ELSE ""

----------------------------------------------------------------------------
(* getProperFilename, route.ts 114-151 *)

\* String.prototype.toLowerCase on the tokens of the model
LowerTok(t) ==
    CASE t = "PDF" -> "pdf"
      [] t = "Report" -> "report"
      [] t = "XLSX" -> "xlsx"
      [] OTHER -> t
ToLowerCase(s) == [i \in 1..Len(s) |-> LowerTok(s[i])]

\* index of the last "." of s, 0 when there is none
LastDot(s) ==
    IF \E i \in 1..Len(s) : s[i] = "."
    THEN CHOOSE i \in 1..Len(s) : s[i] = "." /\ \A j \in (i+1)..Len(s) : s[j] # "."
    ELSE 0

\* mutant: nothing is stripped
StripExt_None(baseName) == baseName

\* baseName.replace(/\.[^/.]+$/, "")
StripExt(baseName) ==
    LET d == LastDot(baseName) IN
    IF d > 0 /\ d < Len(baseName) /\ \A j \in (d+1)..Len(baseName) : baseName[j] # "/"
    THEN SubSeq(baseName, 1, d - 1)
    ELSE baseName

\* mutant: no extension is ever found
ExtMatch_None(baseName) == << >>

\* baseName.match(/\.([^.]+)$/): the captured group, << >> when there is no match
ExtMatch(baseName) ==
    LET d == LastDot(baseName) IN
    IF d > 0 /\ d < Len(baseName)
    THEN SubSeq(baseName, d + 1, Len(baseName))
    ELSE << >>

\* mutant: the name is sent as the metadata gave it
getProperFilename_KeepName(baseName, contentType, specifiedFormat) == baseName

getProperFilename(baseName, contentType, specifiedFormat) ==
    IF specifiedFormat # ""
    THEN StripExt(baseName) \o <<".", specifiedFormat>>
    ELSE LET ext == ExtMatch(baseName)
             expectedExt == MimeExt(contentType)
         IN IF ext # << >>
            THEN IF expectedExt # "" /\ ToLowerCase(ext) = <<expectedExt>>
                 THEN baseName
                 ELSE IF expectedExt # ""
                      THEN StripExt(baseName) \o <<".", expectedExt>>
                      ELSE baseName
            ELSE baseName \o <<".", IF expectedExt # "" THEN expectedExt ELSE "bin">>

----------------------------------------------------------------------------
(* Responses to the caller *)

NoOut == [kind |-> "none", status |-> 0, ctype |-> "", filename |-> << >>,
          via |-> "none", body |-> NoResp, location |-> << >>,
          disposition |-> "", error |-> "", suggestion |-> ""]

\* new Response(data, {status: 200, headers: {"Content-Type", "Content-Disposition"}})
FileOut(via, r, ct, fname) ==
    [NoOut EXCEPT !.kind = "file", !.status = 200, !.ctype = ct,
                  !.filename = fname, !.via = via, !.body = r,
                  !.disposition = "attachment"]

\* route.ts 16-21, 402
Error400 == [NoOut EXCEPT !.kind = "error", !.status = 400,
                          !.ctype = "application/json",
                          !.error = "File ID is required"]

\* route.ts 376-389: the outer catch of GET
Error500 == [NoOut EXCEPT !.kind = "error", !.status = 500,
                          !.ctype = "application/json",
                          !.error = "Failed to download file"]

\* route.ts 369-375
RedirectToViewer(id) ==
    [NoOut EXCEPT !.kind = "redirect", !.status = 302,
                  !.location = <<"https://drive.google.com/file/d/", id, "/view">>]

----------------------------------------------------------------------------
(* axios: validateStatus of each request of GET, and when the promise rejects *)

\* route.ts 32
ValidateMetadata(status) == status < 500
\* route.ts 167
ValidatePrint(status) == TRUE
\* route.ts 200
ValidateEmbed(status) == TRUE
\* mutant: the export request lets every status through
ValidateExport_Any(status) == TRUE
\* route.ts 243
ValidateExport(status) == status = 200
\* route.ts 285-286
ValidateDirect(status) == status = 200 \/ status = 303 \/ status = 302
\* route.ts 309
ValidateAlt(status) == TRUE
\* route.ts 353
ValidateLast(status) == status = 200

\* axios.get rejects: no answer arrived, or validateStatus refused the status
Rejects(r, valid) == r.err \/ ~valid

----------------------------------------------------------------------------
(* Decisions of GET *)

\* mutant: the test of forcePdf beside the MIME type is forgotten
ViewOnlyCond_PdfOnly(v, f, m) == (v \/ f) /\ IncludesPdf(m)
\* mutant: the MIME type is not consulted
ViewOnlyCond_AnyFlag(v, f, m) == v \/ f

\* route.ts 154
ViewOnlyCond(v, f, m) == (v \/ f) /\ (IncludesPdf(m) \/ f)

\* route.ts 170-175
PrintAccepted(r) ==
    r.status = 200 /\ r.data /\ r.bytes > MinBytes /\ ~IncludesTextHtml(r.ctype)

\* route.ts 203
EmbedAccepted(r) == r.status = 200

\* mutant: a requested format enters the export path too
ExportCond_OrFormat(m, fmt) == StartsWithGoogleApps(m) \/ fmt # ""

\* route.ts 224
ExportCond(m, fmt) == StartsWithGoogleApps(m)

\* mutant: a native document defaults to pdf
ExportFormat_DocPdf(m, fmt) ==
    IF fmt # "" THEN fmt
    ELSE IF m = "application/vnd.google-apps.spreadsheet" THEN "xlsx"
    ELSE IF m = "application/vnd.google-apps.presentation" THEN "pptx"
    ELSE "pdf"

\* route.ts 225-236
ExportFormat(m, fmt) ==
    IF fmt # "" THEN fmt
    ELSE IF m = "application/vnd.google-apps.spreadsheet" THEN "xlsx"
    ELSE IF m = "application/vnd.google-apps.presentation" THEN "pptx"
    ELSE IF m = "application/vnd.google-apps.document" THEN "docx"
    ELSE "pdf"

\* route.ts 247-255
contentTypeMap ==
    ("pdf" :> "application/pdf") @@
    ("docx" :> "application/vnd.openxmlformats-officedocument.wordprocessingml.document") @@
    ("xlsx" :> "application/vnd.openxmlformats-officedocument.spreadsheetml.sheet") @@
    ("pptx" :> "application/vnd.openxmlformats-officedocument.presentationml.presentation") @@
    ("csv" :> "text/csv") @@
    ("txt" :> "text/plain") @@
    ("rtf" :> "application/rtf")

\* mutant: the table is not consulted
ExportContentType_Unmapped(fmt) == "application/octet-stream"

\* route.ts 257-258: contentTypeMap[exportFormat] || "application/octet-stream"
ExportContentType(fmt) ==
    IF fmt \in DOMAIN contentTypeMap
    THEN contentTypeMap[fmt]
    ELSE "application/octet-stream"

\* route.ts 246
ExportAccepted(r) == r.status = 200 /\ r.data

\* mutant: every status validateStatus lets through is taken
DirectAccepted_Valid(r) == r.status \in {200, 302, 303}

\* route.ts 289
DirectAccepted(r) == r.status = 200 /\ r.data

\* mutant: the size exception is forgotten
Interstitial_NoCeiling(ct, r) == IncludesTextHtml(ct)

\* route.ts 295-298: the primary response looks like an error page
Interstitial(ct, r) == IncludesTextHtml(ct) /\ r.bytes < SizeCeiling

\* route.ts 315-318: the alternate response is taken
AltBodyAccepted(ct, r) == ~IncludesTextHtml(ct) \/ r.bytes > SizeCeiling

\* route.ts 356
LastAccepted(r) == r.status = 200 /\ r.data

----------------------------------------------------------------------------
(* Functions applied on their own *)

\* no function is being applied: a download request is being served
NoCall == [fn |-> "none"]

\* no download request is being served: a function is being applied
NoRequest ==
    /\ h = "none" /\ fileId = "" /\ format = ""
    /\ forcePdf = FALSE /\ viewOnly = FALSE
    /\ pc = "call" /\ fileName = << >> /\ mimeType = ""
    /\ fileResponse = NoResp /\ exportFormat = ""
    /\ inflight = "none" /\ log = << >> /\ stat = << >> /\ out = NoOut

RequestVars == <<h, fileId, format, forcePdf, viewOnly, pc, fileName, mimeType,
                 fileResponse, exportFormat, inflight, log, stat, out>>

----------------------------------------------------------------------------
(* Steps shared by the actions *)

\* mutant: the next step is taken without the answer
Answered_NotAwaited(r) == stat' = stat
\* an awaited axios.get is answered with r
Answered(r) ==
    stat' = Append(stat, IF r.err THEN 0 ELSE r.status)

\* the handler issues request s and awaits it
Issue(s) ==
    /\ pc' = s
    /\ inflight' = s
    /\ log' = Append(log, s)
    /\ out' = out
    /\ exportFormat' = exportFormat
    /\ call' = call

\* the handler issues the export request with format parameter f and awaits it
IssueExport(f) ==
    /\ pc' = "export"
    /\ inflight' = "export"
    /\ log' = Append(log, "export")
    /\ out' = out
    /\ exportFormat' = f
    /\ call' = call

\* the handler returns o
Finish(o) ==
    /\ pc' = "done"
    /\ inflight' = "none"
    /\ log' = log
    /\ out' = o
    /\ exportFormat' = exportFormat
    /\ call' = call

Request == <<h, fileId, format, forcePdf, viewOnly>>

\* route.ts 223-287: after the view-only block, the export request for a
\* native-app MIME type, else the primary direct request
AfterViewOnly(m) ==
    IF ExportCond(m, format)
    THEN IssueExport(ExportFormat(m, format))
    ELSE Issue("direct")

----------------------------------------------------------------------------
(* The download GET handler, route.ts 10-390 *)

\* route.ts 11-34: read the query, refuse a missing fileId, probe the metadata
GET_Start ==
    /\ h = "GET" /\ pc = "start"
    /\ IF fileId = "" THEN Finish(Error400) ELSE Issue("meta")
    /\ UNCHANGED <<Request, fileName, mimeType, fileResponse, stat>>

\* mutant: a failed metadata probe ends the request
GET_Metadata_FailFast ==
    /\ h = "GET" /\ pc = "meta"
    /\ \E a \in MetaAnswers :
        /\ Answered(Resp(a.err, a.status, "", 0, ~a.err))
        /\ IF ~Rejects(a, ValidateMetadata(a.status)) /\ a.status = 200
           THEN /\ fileName' = IF a.name # << >> THEN a.name ELSE <<"file_", fileId>>
                /\ mimeType' = OrElse(a.mimeType, "application/octet-stream")
                /\ IF ViewOnlyCond(viewOnly, forcePdf, mimeType')
                   THEN Issue("print")
                   ELSE AfterViewOnly(mimeType')
           ELSE /\ fileName' = fileName
                /\ mimeType' = mimeType
                /\ Finish(Error500)
    /\ UNCHANGED <<Request, fileResponse>>

\* route.ts 25-42, 153-159: the metadata answer; a failed probe leaves the defaults
GET_Metadata ==
    /\ h = "GET" /\ pc = "meta"
    /\ \E a \in MetaAnswers :
        /\ Answered(Resp(a.err, a.status, "", 0, ~a.err))
        /\ IF ~Rejects(a, ValidateMetadata(a.status)) /\ a.status = 200
           THEN /\ fileName' = IF a.name # << >> THEN a.name ELSE <<"file_", fileId>>
                /\ mimeType' = OrElse(a.mimeType, "application/octet-stream")
           ELSE /\ fileName' = <<"file_", fileId>>
                /\ mimeType' = "application/octet-stream"
    /\ IF ViewOnlyCond(viewOnly, forcePdf, mimeType')
       THEN Issue("print")
       ELSE AfterViewOnly(mimeType')
    /\ UNCHANGED <<Request, fileResponse>>

\* route.ts 159-201, 218-221: the print answer
GET_Print ==
    /\ h = "GET" /\ pc = "print"
    /\ \E r \in Answers :
        /\ Answered(r)
        /\ IF Rejects(r, ValidatePrint(r.status))
           THEN AfterViewOnly(mimeType)
           ELSE IF PrintAccepted(r)
           THEN Finish(FileOut("print", r, "application/pdf",
                               getProperFilename(fileName, "application/pdf", "pdf")))
           ELSE Issue("embed")
    /\ UNCHANGED <<Request, fileName, mimeType, fileResponse>>

\* route.ts 194-221: the embedded-preview answer
GET_Embed ==
    /\ h = "GET" /\ pc = "embed"
    /\ \E r \in Answers :
        /\ Answered(r)
        /\ IF Rejects(r, ValidateEmbed(r.status))
           THEN AfterViewOnly(mimeType)
           ELSE IF EmbedAccepted(r)
           THEN Finish(FileOut("embed", r, "application/pdf",
                               getProperFilename(fileName, "application/pdf", "pdf")))
           ELSE AfterViewOnly(mimeType)
    /\ UNCHANGED <<Request, fileName, mimeType, fileResponse>>

\* route.ts 240-287: the export answer, for the format the request was made with; a rejected promise reaches the outer catch
GET_Export ==
    /\ h = "GET" /\ pc = "export"
    /\ \E r \in Answers :
        /\ Answered(r)
        /\ IF Rejects(r, ValidateExport(r.status))
           THEN Finish(Error500)
           ELSE IF ExportAccepted(r)
           THEN LET contentType == ExportContentType(exportFormat)
                IN Finish(FileOut("export", r, contentType,
                                  getProperFilename(fileName, contentType, exportFormat)))
           ELSE Issue("direct")
    /\ UNCHANGED <<Request, fileName, mimeType, fileResponse>>

\* route.ts 278-310, 332-354: the primary direct answer
GET_Direct ==
    /\ h = "GET" /\ pc = "direct"
    /\ \E r \in Answers :
        /\ Answered(r)
        /\ IF Rejects(r, ValidateDirect(r.status))
           THEN Finish(Error500) /\ fileResponse' = fileResponse
           ELSE IF DirectAccepted(r)
           THEN LET responseContentType == OrElse(r.ctype, mimeType) IN
                IF Interstitial(responseContentType, r)
                THEN Issue("alt") /\ fileResponse' = r
                ELSE /\ Finish(FileOut("direct", r, responseContentType,
                                 getProperFilename(fileName, responseContentType, "")))
                     /\ fileResponse' = fileResponse
           ELSE Issue("last") /\ fileResponse' = fileResponse
    /\ UNCHANGED <<Request, fileName, mimeType>>

\* mutant: a refused alternate answer leads on to the last resort
GET_Alt_ThenLast ==
    /\ h = "GET" /\ pc = "alt"
    /\ \E r \in Answers :
        /\ Answered(r)
        /\ LET altContentType == OrElse(r.ctype, mimeType)
           IN IF Rejects(r, ValidateAlt(r.status))
              THEN Finish(Error500)
              ELSE IF r.status = 200 /\ r.data /\ AltBodyAccepted(altContentType, r)
              THEN Finish(FileOut("alt", r, altContentType,
                                  getProperFilename(fileName, altContentType, "")))
              ELSE Issue("last")
    /\ UNCHANGED <<Request, fileName, mimeType, fileResponse>>

\* route.ts 302-340: the alternate answer; when it is not taken the primary
\* response is sent
GET_Alt ==
    /\ h = "GET" /\ pc = "alt"
    /\ \E r \in Answers :
        /\ Answered(r)
        /\ LET altContentType == OrElse(r.ctype, mimeType)
               responseContentType == OrElse(fileResponse.ctype, mimeType)
           IN IF Rejects(r, ValidateAlt(r.status))
              THEN Finish(Error500)
              ELSE IF r.status = 200 /\ IncludesTextHtml(altContentType) /\ ~r.data
              THEN Finish(Error500)   \* altResponse.data.byteLength of no data throws
              ELSE IF r.status = 200 /\ AltBodyAccepted(altContentType, r)
              THEN Finish(FileOut("alt", r, altContentType,
                                  getProperFilename(fileName, altContentType, "")))
              ELSE Finish(FileOut("direct", fileResponse, responseContentType,
                                  getProperFilename(fileName, responseContentType, "")))
    /\ UNCHANGED <<Request, fileName, mimeType, fileResponse>>

\* route.ts 346-375: the last-resort answer, then the redirect to the viewer
GET_Last ==
    /\ h = "GET" /\ pc = "last"
    /\ \E r \in Answers :
        /\ Answered(r)
        /\ IF Rejects(r, ValidateLast(r.status))
           THEN Finish(Error500)
           ELSE IF LastAccepted(r)
           THEN LET contentType == OrElse(r.ctype, mimeType) IN
                Finish(FileOut("last", r, contentType,
                               getProperFilename(fileName, contentType, "")))
           ELSE Finish(RedirectToViewer(fileId))
    /\ UNCHANGED <<Request, fileName, mimeType, fileResponse>>

----------------------------------------------------------------------------
(* Decisions of the legacy handler, route.ts 395-630 *)

\* route.ts 430-432
isGoogleApps(m) == StartsWithGoogleApps(m)

\* route.ts 434-435: the requested format counts for a native-app file only
H_exportFormat(m, fmt) == IF fmt # "" /\ isGoogleApps(m) THEN fmt ELSE ""

\* route.ts 445-451
isHtmlResponse(ct) == IncludesTextHtml(ct) \/ IncludesXhtml(ct)

\* route.ts 479
H_ExportCond(m, fmt) == isGoogleApps(m) \/ H_exportFormat(m, fmt) # ""

\* route.ts 480-487
H_defaultFormat(m) ==
    IF m = "application/vnd.google-apps.document" THEN "pdf"
    ELSE IF m = "application/vnd.google-apps.spreadsheet" THEN "xlsx"
    ELSE IF m = "application/vnd.google-apps.presentation" THEN "pptx"
    ELSE "pdf"

\* route.ts 489
H_finalFormat(m, fmt) == OrElse(H_exportFormat(m, fmt), H_defaultFormat(m))

\* route.ts 437-442
contentTypes ==
    ("pdf" :> "application/pdf") @@
    ("docx" :> "application/vnd.openxmlformats-officedocument.wordprocessingml.document") @@
    ("xlsx" :> "application/vnd.openxmlformats-officedocument.spreadsheetml.sheet") @@
    ("pptx" :> "application/vnd.openxmlformats-officedocument.presentationml.presentation")

\* route.ts 504-505
H_ExportContentType(finalFormat) ==
    IF finalFormat \in DOMAIN contentTypes
    THEN contentTypes[finalFormat]
    ELSE "application/octet-stream"

\* route.ts 462-465, 498-501, 525, 549-552, 578-581
H_Accepted(r) == r.status = 200 /\ ~isHtmlResponse(r.ctype)

\* route.ts 607
H_EmbedAccepted(r) == r.status = 200

\* route.ts 538
H_PdfCond(m) == m = "application/pdf" \/ IncludesPdf(m)

\* fileMetadata?.name || dflt
NameOr(name, dflt) == IF name # << >> THEN name ELSE <<dflt>>

\* route.ts 620-625
Error403 == [NoOut EXCEPT !.kind = "error", !.status = 403,
                          !.ctype = "application/json",
                          !.error = "File is view-only or not publicly accessible",
                          !.suggestion = "Ask the owner to enable download permissions or share with \"Anyone with the link\" access"]

\* route.ts 626-629: the outer catch of the legacy handler
H_Error500 == [NoOut EXCEPT !.kind = "error", !.status = 500,
                            !.ctype = "application/json",
                            !.error = "Failed to download file"]

\* route.ts 478-496, 517-523: after the direct attempt, the export request
\* when it applies, else the confirmation-token request
H_AfterDirect(m) ==
    IF H_ExportCond(m, format)
    THEN IssueExport(H_finalFormat(m, format))
    ELSE Issue("confirm")

\* route.ts 537-547, 620-625: after the confirmation-token attempt
H_AfterConfirm(m) ==
    IF H_PdfCond(m) THEN Issue("print") ELSE Finish(Error403)

----------------------------------------------------------------------------
(* The legacy download handler, route.ts 395-630 *)

\* req.query.fileId of a legacy handler when the parameter is repeated: an array
FileIdArray == "[f1,f2]"

\* mutant: the identifier is not looked at
H_Start_Unchecked ==
    /\ h = "handler" /\ pc = "start"
    /\ Issue("meta")
    /\ UNCHANGED <<Request, fileName, mimeType, fileResponse, stat>>

\* route.ts 399-414
H_Start ==
    /\ h = "handler" /\ pc = "start"
    /\ IF fileId = "" \/ fileId = FileIdArray THEN Finish(Error400) ELSE Issue("meta")
    /\ UNCHANGED <<Request, fileName, mimeType, fileResponse, stat>>

\* route.ts 407-460, 478-496: the metadata answer, then the direct request
\* unless a format is requested of a native-app file
H_Metadata ==
    /\ h = "handler" /\ pc = "meta"
    /\ \E a \in MetaAnswers :
        /\ Answered(Resp(a.err, a.status, "", 0, ~a.err))
        /\ IF a.err \/ a.status = 403 \/ a.status = 404
           THEN fileName' = <<"unknown_file">> /\ mimeType' = ""
           ELSE fileName' = a.name /\ mimeType' = a.mimeType
    /\ IF H_exportFormat(mimeType', format) = ""
       THEN Issue("direct")
       ELSE H_AfterDirect(mimeType')
    /\ UNCHANGED <<Request, fileResponse>>

\* route.ts 456-476
H_Direct ==
    /\ h = "handler" /\ pc = "direct"
    /\ \E r \in StreamAnswers :
        /\ Answered(r)
        /\ IF r.err
           THEN Finish(H_Error500)
           ELSE IF H_Accepted(r)
           THEN Finish(FileOut("direct", r, OrElse(r.ctype, "application/octet-stream"),
                               NameOr(fileName, "file")))
           ELSE H_AfterDirect(mimeType)
    /\ UNCHANGED <<Request, fileName, mimeType, fileResponse>>

\* route.ts 492-515
H_Export ==
    /\ h = "handler" /\ pc = "export"
    /\ \E r \in StreamAnswers :
        /\ Answered(r)
        /\ IF r.err
           THEN Finish(H_Error500)
           ELSE IF H_Accepted(r)
           THEN LET finalFormat == exportFormat IN
                Finish(FileOut("export", r, H_ExportContentType(finalFormat),
                               NameOr(fileName, "document") \o <<".", finalFormat>>))
           ELSE Issue("confirm")
    /\ UNCHANGED <<Request, fileName, mimeType, fileResponse>>

\* route.ts 518-535
H_Confirm ==
    /\ h = "handler" /\ pc = "confirm"
    /\ \E r \in StreamAnswers :
        /\ Answered(r)
        /\ IF r.err
           THEN Finish(H_Error500)
           ELSE IF H_Accepted(r)
           THEN Finish(FileOut("confirm", r, OrElse(r.ctype, "application/octet-stream"),
                               NameOr(fileName, "file")))
           ELSE H_AfterConfirm(mimeType)
    /\ UNCHANGED <<Request, fileName, mimeType, fileResponse>>

\* route.ts 540-562: a failure of the print request is caught
H_Print ==
    /\ h = "handler" /\ pc = "print"
    /\ \E r \in StreamAnswers :
        /\ Answered(r)
        /\ IF ~r.err /\ H_Accepted(r)
           THEN Finish(FileOut("print", r, "application/pdf",
                               NameOr(fileName, "document") \o <<".", "pdf">>))
           ELSE Issue("preview")
    /\ UNCHANGED <<Request, fileName, mimeType, fileResponse>>

\* route.ts 565-591: a failure of the preview request is caught
H_Preview ==
    /\ h = "handler" /\ pc = "preview"
    /\ \E r \in StreamAnswers :
        /\ Answered(r)
        /\ IF ~r.err /\ H_Accepted(r)
           THEN Finish(FileOut("preview", r, "application/pdf",
                               NameOr(fileName, "document") \o <<".", "pdf">>))
           ELSE Issue("embed")
    /\ UNCHANGED <<Request, fileName, mimeType, fileResponse>>

\* route.ts 594-625: the embedded viewer is piped whatever its type, without
\* a Content-Disposition header; a failure of the request is caught
H_Embed ==
    /\ h = "handler" /\ pc = "embed"
    /\ \E r \in StreamAnswers :
        /\ Answered(r)
        /\ IF ~r.err /\ H_EmbedAccepted(r)
           THEN Finish([FileOut("embed", r, OrElse(r.ctype, "text/html"), << >>)
                            EXCEPT !.disposition = ""])
           ELSE Finish(Error403)
    /\ UNCHANGED <<Request, fileName, mimeType, fileResponse>>

----------------------------------------------------------------------------

Init ==
    /\ h \in {"GET", "handler"}
    /\ fileId \in {"", "f1"} \cup (IF h = "handler" THEN {FileIdArray} ELSE {})
    /\ format \in Formats
    /\ forcePdf \in BOOLEAN
    /\ viewOnly \in BOOLEAN
    /\ pc = "start"
    /\ fileName = << >>
    /\ mimeType = ""
    /\ fileResponse = NoResp
    /\ exportFormat = ""
    /\ inflight = "none"
    /\ log = << >>
    /\ stat = << >>
    /\ out = NoOut
    /\ call = NoCall

Next ==
    \/ GET_Start
    \/ GET_Metadata
    \/ GET_Print
    \/ GET_Embed
    \/ GET_Export
    \/ GET_Direct
    \/ GET_Alt
    \/ GET_Last
    \/ H_Start
    \/ H_Metadata
    \/ H_Direct
    \/ H_Export
    \/ H_Confirm
    \/ H_Print
    \/ H_Preview
    \/ H_Embed

Spec == Init /\ [][Next]_vars

----------------------------------------------------------------------------
(* Vocabulary of the properties *)

Done == pc = "done"

\* request s has been issued
Issued(s) == \E i \in 1..Len(log) : log[i] = s

\* how many times request s has been issued
TimesIssued(s) == Cardinality({i \in 1..Len(log) : log[i] = s})

\* the caller got file bytes
Delivered == out.kind = "file" /\ out.status = 200

\* Success: status 200 with file bytes and an attachment header
Success == Delivered /\ out.disposition = "attachment"

\* the interstitial heuristic of the Response Validator: an HTML marker in the
\* declared content type and a size under the ceiling
HtmlUnderCeiling(r) == IncludesTextHtml(r.ctype) /\ r.bytes < SizeCeiling

\* seq ends with the tokens of tail
EndsWith(seq, tail) ==
    /\ Len(seq) >= Len(tail)
    /\ SubSeq(seq, Len(seq) - Len(tail) + 1, Len(seq)) = tail

\* the answers to the content requests (every request but the metadata probe)
ContentAnswers == {stat[i] : i \in 2..Len(stat)}

\* position of a request of GET in the fixed order of the strategies
Rank(s) ==
    CASE s = "meta" -> 0
      [] s = "print" -> 1
      [] s = "embed" -> 2
      [] s = "export" -> 3
      [] s = "direct" -> 4
      [] s = "alt" -> 5
      [] s = "last" -> 6
      [] OTHER -> 7

----------------------------------------------------------------------------
(* C1  Every payload delivered as Success passed the Response Validator: it is
   a 200 answer, not an HTML-marked body under the size ceiling, and on the
   view-only path not a body under the minimum byte threshold. *)
C1_SuccessPassedValidator ==
    Success =>
        /\ out.body.status = 200
        /\ ~HtmlUnderCeiling(out.body)
        /\ (h = "GET" /\ out.via \in {"print", "embed"} => out.body.bytes >= MinBytes)

(* C2  When every content attempt of GET is answered with a non-success status,
   the outcome is the 302 redirect to the viewer page, never a 500. *)
C2_AllFailedRedirects ==
    (h = "GET" /\ Done /\ Len(stat) >= 2 /\ ContentAnswers \cap {0, 200} = {}) =>
        /\ out.kind = "redirect"
        /\ out.status = 302
        /\ out.location = <<"https://drive.google.com/file/d/", fileId, "/view">>

(* C3  GET issues its requests in the fixed order print, embed, export, direct,
   alternate, last resort, each at most once; a later strategy is attempted
   only after the earlier applicable ones were attempted and not delivered;
   the redirect comes only after the last-resort request; and once a response
   is sent no request is in flight and none is issued any more. *)
C3_OrderInv ==
    h = "GET" =>
        /\ \A i, j \in 1..Len(log) : i < j => Rank(log[i]) < Rank(log[j])
        /\ (Issued("embed") => Issued("print"))
        /\ (Issued("export") \/ Issued("direct")) /\
               (forcePdf \/ (viewOnly /\ IncludesPdf(mimeType))) => Issued("print")
        /\ Issued("direct") /\ StartsWithGoogleApps(mimeType) => Issued("export")
        /\ (Issued("alt") \/ Issued("last")) => Issued("direct")
        /\ out.kind = "redirect" => Issued("last")
        /\ out.kind = "none" => (Len(stat) = Len(log) - 1 \/ pc = "start")
        /\ out.kind # "none" => (pc = "done" /\ inflight = "none")
C3_AfterSend ==
    (h = "GET" /\ out.kind # "none") => (log' = log /\ inflight' = "none" /\ out' = out)
C3_FixedOrder == [](C3_OrderInv) /\ [][C3_AfterSend]_vars
\* the whole chain ran: every request of GET was issued and the redirect was sent
C3_Witness ==
    /\ h = "GET" /\ out.kind = "redirect"
    /\ log = <<"meta", "print", "embed", "export", "direct", "last">>

(* C4  When the primary direct response of GET is flagged interstitial the
   alternate URL is requested exactly once; if the alternate is rejected too
   the primary response is not delivered and the last-resort request follows. *)
C4_InterstitialAbandoned ==
    (h = "GET" /\ Issued("alt")) =>
        /\ TimesIssued("alt") = 1
        /\ ~(Delivered /\ out.via = "direct")
        /\ (Done /\ ~(Delivered /\ out.via = "alt") => Issued("last"))

(* C5  The view-only path of GET is entered for every request with viewOnly or
   forcePdf set, whatever the MIME type, and never when both are unset. *)
C5_Original ==
    (h = "GET" /\ Len(stat) >= 1) => (Issued("print") <=> (viewOnly \/ forcePdf))
(* C5 (amended)  The view-only path of GET is entered exactly when forcePdf is
   set, or viewOnly is set and the probed MIME type contains "pdf". *)
C5_ViewOnlyEntry ==
    (h = "GET" /\ Len(stat) >= 1) =>
        (Issued("print") <=> (forcePdf \/ (viewOnly /\ IncludesPdf(mimeType))))
\* a viewOnly request for a file that is no PDF went on without the view-only path
C5_Witness ==
    /\ h = "GET" /\ viewOnly /\ ~forcePdf /\ mimeType = "text/csv"
    /\ Issued("direct") /\ ~Issued("print")

(* C6  On the view-only path of GET print comes first, the embedded preview
   second, and a sub-attempt wins only with a 200 answer that is no HTML-marked
   body under the ceiling and holds at least the minimum byte threshold. *)
C6_SubAttemptWins ==
    h = "GET" =>
        /\ (Issued("embed") => log[2] = "print" /\ log[3] = "embed")
        /\ (Delivered /\ out.via \in {"print", "embed"} =>
                /\ out.body.status = 200
                /\ out.body.bytes >= MinBytes
                /\ ~HtmlUnderCeiling(out.body))

(* C7  The export path is entered whenever the file is a native-app document
   or a format is requested, and not otherwise. *)
PastExportDecision ==
    IF h = "GET" THEN Issued("export") \/ Issued("direct")
                 ELSE Issued("export") \/ Issued("confirm")
C7_Original ==
    PastExportDecision =>
        (Issued("export") <=> (StartsWithGoogleApps(mimeType) \/ format # ""))
(* C7 (amended)  The export path is entered exactly when the probed MIME type
   is a native-app type; a requested format alone does not enter it. *)
C7_ExportEntry ==
    PastExportDecision => (Issued("export") <=> StartsWithGoogleApps(mimeType))
\* a format was requested of a file that is no native-app document, and the
\* chain went on without the export request
C7_Witness ==
    /\ format = "xlsx" /\ mimeType = "text/csv"
    /\ PastExportDecision /\ ~Issued("export") /\ Done

(* C8  The effective export format is the requested format when given, else
   document -> pdf, spreadsheet -> xlsx, presentation -> pptx, other -> pdf. *)
C8_Original ==
    Issued("export") =>
        exportFormat =
            IF format # "" THEN format
            ELSE IF mimeType = "application/vnd.google-apps.spreadsheet" THEN "xlsx"
            ELSE IF mimeType = "application/vnd.google-apps.presentation" THEN "pptx"
            ELSE "pdf"
(* C8 (amended)  The effective export format is the requested format when
   given, else spreadsheet -> xlsx, presentation -> pptx, document -> docx in
   GET and pdf in the legacy handler, other -> pdf. *)
C8_EffectiveFormat ==
    Issued("export") =>
        exportFormat =
            IF format # "" THEN format
            ELSE IF mimeType = "application/vnd.google-apps.spreadsheet" THEN "xlsx"
            ELSE IF mimeType = "application/vnd.google-apps.presentation" THEN "pptx"
            ELSE IF mimeType = "application/vnd.google-apps.document"
                 THEN (IF h = "GET" THEN "docx" ELSE "pdf")
            ELSE "pdf"
\* GET exported a native document for which no format was requested
C8_Witness ==
    /\ h = "GET" /\ format = "" /\ mimeType = "application/vnd.google-apps.document"
    /\ Delivered /\ out.via = "export"

(* C9  On a successful export the delivered Content-Type is the entry of the
   static format -> MIME table for the effective format (the generic type when
   the table has none), whatever the export endpoint declared, and the
   filename ends in "." + effective format; a native spreadsheet without a
   requested format is delivered as the xlsx MIME type, named *.xlsx. *)
C9_ExportContentType ==
    (Delivered /\ out.via = "export") =>
        /\ LET table == IF h = "GET" THEN contentTypeMap ELSE contentTypes IN
           out.ctype = IF exportFormat \in DOMAIN table THEN table[exportFormat]
                       ELSE "application/octet-stream"
        /\ EndsWith(out.filename, <<".", exportFormat>>)
        /\ (mimeType = "application/vnd.google-apps.spreadsheet" /\ format = "" =>
                /\ out.ctype = "application/vnd.openxmlformats-officedocument.spreadsheetml.sheet"
                /\ EndsWith(out.filename, <<".", "xlsx">>))
\* GET exported a native spreadsheet whose export answer declared an HTML type
C9_Witness ==
    /\ h = "GET" /\ Delivered /\ out.via = "export"
    /\ mimeType = "application/vnd.google-apps.spreadsheet" /\ format = ""
    /\ out.body.ctype = "text/html; charset=utf-8"
    /\ fileName = <<"Report", ".", "pdf">>

(* C10  No request of the download chain raises on a non-success status: a
   request never ends in the 500 error because an upstream request was
   answered with a status other than 200. *)
C10_NoRaiseOnStatus ==
    ~(Done /\ out.kind = "error" /\ out.status = 500
           /\ Len(stat) >= 2 /\ stat[Len(stat)] \notin {0, 200})

(* C11  A transport failure of a non-final request of GET is caught for that
   attempt alone and the chain goes on with the next request; only a failure
   of the final (last-resort) request ends the request with the 500 error. *)
C11_TransportCaught ==
    h = "GET" =>
        \A i \in 2..Len(stat) :
            stat[i] = 0 =>
                IF log[i] = "last"
                THEN out.kind = "error" /\ out.status = 500
                ELSE Len(log) > i

----------------------------------------------------------------------------
(* The URL of each request: host, path and the query parameters it carries *)

U(host, path, query) == [host |-> host, path |-> path, query |-> query]

\* mutant: the confirmation parameter sits on the last-resort URL of GET, not
\* on the primary one
Url_ConfirmOnFallback(hh, s) ==
    IF hh = "GET"
    THEN CASE s = "print"  -> U("drive.google.com", "/uc", {"id", "export=download", "format=pdf"})
           [] s = "embed"  -> U("drive.google.com", "/file/d/{id}/preview", {})
           [] s = "export" -> U("docs.google.com", "/export/download", {"id", "exportFormat"})
           [] s = "direct" -> U("drive.google.com", "/uc", {"id", "export=download"})
           [] s = "alt"    -> U("drive.google.com", "/uc", {"export=download", "id"})
           [] s = "last"   -> U("docs.google.com", "/uc", {"export=download", "id", "confirm=t"})
           [] OTHER        -> U("www.googleapis.com", "/drive/v3/files/{id}", {"fields"})
    ELSE CASE s = "direct"  -> U("drive.google.com", "/uc", {"export=download", "id"})
           [] s = "export"  -> U("drive.google.com", "/uc", {"export=download", "id", "format"})
           [] s = "confirm" -> U("drive.google.com", "/uc", {"export=download", "confirm=t", "id"})
           [] s = "print"   -> U("drive.google.com", "/print", {"id"})
           [] s = "preview" -> U("docs.google.com", "/uc", {"export=download", "id"})
           [] s = "embed"   -> U("drive.google.com", "/file/d/{id}/preview", {})
           [] OTHER         -> U("www.googleapis.com", "/drive/v3/files/{id}", {"fields"})

\* route.ts 30, 157, 192, 238, 276, 300, 344 (GET) and 410, 455, 490, 518,
\* 540, 565, 594 (legacy handler)
Url(hh, s) ==
    IF hh = "GET"
    THEN CASE s = "print"  -> U("drive.google.com", "/uc", {"id", "export=download", "format=pdf"})
           [] s = "embed"  -> U("drive.google.com", "/file/d/{id}/preview", {})
           [] s = "export" -> U("docs.google.com", "/export/download", {"id", "exportFormat"})
           [] s = "direct" -> U("drive.google.com", "/uc", {"id", "export=download", "confirm=t"})
           [] s = "alt"    -> U("drive.google.com", "/uc", {"export=download", "id"})
           [] s = "last"   -> U("docs.google.com", "/uc", {"export=download", "id"})
           [] OTHER        -> U("www.googleapis.com", "/drive/v3/files/{id}", {"fields"})
    ELSE CASE s = "direct"  -> U("drive.google.com", "/uc", {"export=download", "id"})
           [] s = "export"  -> U("drive.google.com", "/uc", {"export=download", "id", "format"})
           [] s = "confirm" -> U("drive.google.com", "/uc", {"export=download", "confirm=t", "id"})
           [] s = "print"   -> U("drive.google.com", "/print", {"id"})
           [] s = "preview" -> U("docs.google.com", "/uc", {"export=download", "id"})
           [] s = "embed"   -> U("drive.google.com", "/file/d/{id}/preview", {})
           [] OTHER         -> U("www.googleapis.com", "/drive/v3/files/{id}", {"fields"})

\* the URL carries the confirmation parameter
HasConfirm(u) == "confirm=t" \in u.query
\* a uc download URL
UcDownload(u) == u.path = "/uc" /\ "export=download" \in u.query

(* C12  The request that carries confirm=t is the fallback that follows a
   plain direct-download request (one without the parameter); it is not the
   first direct-download request. *)
C12_Original ==
    \A i \in 1..Len(log) :
        HasConfirm(Url(h, log[i])) =>
            \E j \in 1..(i - 1) :
                UcDownload(Url(h, log[j])) /\ ~HasConfirm(Url(h, log[j]))
(* C12 (amended)  In the legacy handler the confirm=t request is the fallback
   that directly follows a failed uc download request without the parameter;
   in GET the primary direct request itself carries confirm=t and the
   requests that follow it (alternate, last resort) are uc download requests
   without it. *)
C12_ConfirmPlacement ==
    \A i \in 1..Len(log) :
        /\ HasConfirm(Url(h, log[i])) =>
              IF h = "GET"
              THEN /\ log[i] = "direct"
                   /\ \A j \in (i + 1)..Len(log) :
                          UcDownload(Url(h, log[j])) /\ ~HasConfirm(Url(h, log[j]))
              ELSE /\ log[i] = "confirm" /\ i > 1
                   /\ UcDownload(Url(h, log[i - 1]))
                   /\ ~HasConfirm(Url(h, log[i - 1]))
        /\ (h = "GET" /\ log[i] = "direct") => HasConfirm(Url(h, log[i]))
        /\ (h = "handler" /\ log[i] = "confirm") => HasConfirm(Url(h, log[i]))
\* GET went from the primary direct request, which carries confirm=t, to the
\* last-resort request, which does not
C12_Witness ==
    /\ h = "GET" /\ Done /\ log = <<"meta", "direct", "last">>
    /\ HasConfirm(Url(h, "direct")) /\ ~HasConfirm(Url(h, "last"))

----------------------------------------------------------------------------
(* The interstitial test of the primary direct response, route.ts 289-298,
   applied to every declared content type, metadata MIME type and length *)

\* content-type headers of the answer ("" : no header)
V_Headers == {"", "text/html", "text/html; charset=utf-8", "application/pdf",
              "application/octet-stream"}
\* values of mimeType the header falls back to
V_Mimes == {"application/octet-stream", "text/html", "application/pdf"}
\* body lengths, on both sides of the ceiling
V_Sizes == {0, 50, 500, 999999, 1000000, 1000001, 2000000}

InitValidator ==
    /\ NoRequest
    /\ call \in {[fn |-> "validate", header |-> c, mime |-> m, bytes |-> b,
                  done |-> FALSE, flagged |-> FALSE] :
                    c \in V_Headers, m \in V_Mimes, b \in V_Sizes}

\* route.ts 291-298
CheckPrimary ==
    /\ call.fn = "validate" /\ ~call.done
    /\ call' = [call EXCEPT
                  !.done = TRUE,
                  !.flagged = Interstitial(OrElse(call.header, call.mime),
                                           Resp(FALSE, 200, call.header, call.bytes, TRUE))]
    /\ UNCHANGED RequestVars

NextValidator == CheckPrimary

SpecValidator == InitValidator /\ [][NextValidator]_vars

(* C13  The interstitial test flags a 200 response exactly when its content
   type (the declared header, the metadata MIME type when none is declared)
   contains the HTML marker and its length is below 1,000,000 bytes: an HTML
   response of 500 bytes is flagged, one of 2,000,000 bytes is not. *)
C13_InterstitialTest ==
    (call.fn = "validate" /\ call.done) =>
        LET declared == IF call.header # "" THEN call.header ELSE call.mime
            html == declared \in {"text/html", "text/html; charset=utf-8"}
        IN /\ call.flagged <=> (html /\ call.bytes < 1000000)
           /\ (html /\ call.bytes = 500 => call.flagged)
           /\ (html /\ call.bytes = 2000000 => ~call.flagged)
\* a 500-byte HTML answer was flagged
C13_Witness ==
    /\ call.fn = "validate" /\ call.done
    /\ call.header = "text/html; charset=utf-8" /\ call.bytes = 500
    /\ call.flagged

(* C14  No upstream answer with a status other than 200 is delivered as file
   content by any request of either handler; a 302 the primary direct request
   of GET lets through is not delivered. *)
C14_Only200Delivered ==
    /\ Delivered => out.body.status = 200
    /\ \A i \in 2..Len(stat) :
           (stat[i] # 200 /\ Delivered) => out.via # log[i]
\* the primary direct request of GET was answered 302 and the chain went on
\* to the last-resort request, which delivered
C14_Witness ==
    /\ h = "GET" /\ log = <<"meta", "direct", "last">> /\ stat[2] = 302
    /\ Delivered /\ out.via = "last"

(* C15  For every Success whose content type is in the MIME -> extension
   table, the filename of the Content-Disposition header ends with the
   extension the table gives for that content type. *)
C15_ExtensionConsistent ==
    (Success /\ MimeExt(out.ctype) # "") =>
        EndsWith(out.filename, <<".", MimeExt(out.ctype)>>)

----------------------------------------------------------------------------
(* getProperFilename, route.ts 114-151, applied to every base name of at most
   MaxNameLen tokens, and applied again to its own result *)

MaxNameLen == 4

NameTokens == {"Report", "data", "pdf", "PDF", ".", "/"}

\* the sequences of 1..n tokens
RECURSIVE NamesUpTo(_)
NamesUpTo(n) ==
    IF n = 0 THEN {<< >>}
    ELSE LET shorter == NamesUpTo(n - 1) IN
         shorter \cup {Append(b, t) : b \in shorter, t \in NameTokens}
BaseNames == NamesUpTo(MaxNameLen) \ {<< >>}

\* content types: two of the MIME table, one response header and one MIME
\* type the table does not hold
R_ContentTypes == {"application/pdf", "text/csv", "text/html; charset=utf-8",
                   "application/octet-stream"}

\* specifiedFormat ("" : null); a format is one token without "." or "/"
R_Formats == {"", "xlsx", "pdf"}

InitResolver ==
    /\ NoRequest
    /\ call \in {[fn |-> "resolve", base |-> b, ctype |-> c, fmt |-> f,
                  step |-> 0, res1 |-> << >>, res2 |-> << >>] :
                    b \in BaseNames, c \in R_ContentTypes, f \in R_Formats}

\* getProperFilename(baseName, contentType, specifiedFormat)
Resolve ==
    /\ call.fn = "resolve" /\ call.step = 0
    /\ call' = [call EXCEPT
                  !.step = 1,
                  !.res1 = getProperFilename(call.base, call.ctype, call.fmt)]
    /\ UNCHANGED RequestVars

\* getProperFilename(result, contentType, specifiedFormat)
ResolveAgain ==
    /\ call.fn = "resolve" /\ call.step = 1
    /\ call' = [call EXCEPT
                  !.step = 2,
                  !.res2 = getProperFilename(call.res1, call.ctype, call.fmt)]
    /\ UNCHANGED RequestVars

NextResolver == Resolve \/ ResolveAgain

SpecResolver == InitResolver /\ [][NextResolver]_vars

\* b ends in an extension: a "." followed by at least one character, none of
\* them "." or "/"; k is the position of that "."
ExtensionAt(b, k) ==
    /\ k \in 1..(Len(b) - 1)
    /\ b[k] = "."
    /\ \A j \in (k + 1)..Len(b) : b[j] \notin {".", "/"}
\* b without that extension
Stem(b) ==
    IF \E k \in 1..Len(b) : ExtensionAt(b, k)
    THEN LET k == CHOOSE k \in 1..Len(b) : ExtensionAt(b, k) IN SubSeq(b, 1, k - 1)
    ELSE b

\* the test of route.ts 127-128: b has a "." followed by at least one
\* character, none of them "."; k is the position of that "."
HasExtAt(b, k) ==
    /\ k \in 1..(Len(b) - 1)
    /\ b[k] = "."
    /\ \A j \in (k + 1)..Len(b) : b[j] # "."
HasExt(b) == \E k \in 1..Len(b) : HasExtAt(b, k)
\* the part of b before that "." and the part after it
BeforeExt(b) == LET k == CHOOSE k \in 1..Len(b) : HasExtAt(b, k) IN SubSeq(b, 1, k - 1)
AfterExt(b) == LET k == CHOOSE k \in 1..Len(b) : HasExtAt(b, k) IN SubSeq(b, k + 1, Len(b))

\* the table's extension of the content types applied here ("" : none)
TableExt(c) ==
    CASE c = "application/pdf" -> "pdf"
      [] c = "text/csv" -> "csv"
      [] OTHER -> ""

\* equality of an extension with a table extension, letter case apart
SameExt(x, e) == x = <<e>> \/ (e = "pdf" /\ x = <<"PDF">>)

(* C16  With a requested format the result is the base name without its
   extension followed by "." and the format, whatever the content type:
   Report.pdf with xlsx gives Report.xlsx. *)
C16_FormatWins ==
    (call.fn = "resolve" /\ call.step >= 1 /\ call.fmt # "") =>
        /\ call.res1 = Stem(call.base) \o <<".", call.fmt>>
        /\ (call.base = <<"Report", ".", "pdf">> /\ call.fmt = "xlsx" =>
                call.res1 = <<"Report", ".", "xlsx">>)
\* Report.pdf was resolved with format xlsx against a content type whose table
\* extension is csv
C16_Witness ==
    /\ call.fn = "resolve" /\ call.step = 1
    /\ call.base = <<"Report", ".", "pdf">> /\ call.fmt = "xlsx"
    /\ call.ctype = "text/csv"
    /\ call.res1 = <<"Report", ".", "xlsx">>

(* C17  Without a requested format, on a base name that has an extension: the
   extension is replaced by the table's when the table has one for the content
   type and it differs; the name is returned unchanged when it is equal, and
   when the table has none. *)
C17_ExtensionReplaced ==
    (call.fn = "resolve" /\ call.step >= 1 /\ call.fmt = "" /\ HasExt(call.base)) =>
        LET e == TableExt(call.ctype) IN
        IF e = "" \/ SameExt(AfterExt(call.base), e)
        THEN call.res1 = call.base
        ELSE call.res1 = BeforeExt(call.base) \o <<".", e>>

(* C18  Without a requested format, on a base name that has no extension, the
   result is the name followed by "." and the table's extension for the content
   type, or "bin" when the table has none: data with text/csv gives data.csv. *)
C18_ExtensionAppended ==
    (call.fn = "resolve" /\ call.step >= 1 /\ call.fmt = "" /\ ~HasExt(call.base)) =>
        LET e == TableExt(call.ctype) IN
        /\ call.res1 = call.base \o <<".", IF e # "" THEN e ELSE "bin">>
        /\ (call.base = <<"data">> /\ call.ctype = "text/csv" =>
                call.res1 = <<"data", ".", "csv">>)
\* data was resolved against text/csv, and against a type the table lacks
C18_Witness ==
    /\ call.fn = "resolve" /\ call.step = 1 /\ call.fmt = ""
    /\ call.base = <<"data">> /\ call.ctype = "text/csv"
    /\ call.res1 = <<"data", ".", "csv">>

(* C19  getProperFilename is idempotent: a name that already ends in the
   table's extension for its content type is returned unchanged, and resolving
   the result again with the same content type and format returns it
   unchanged. *)
C19_Idempotent ==
    call.fn = "resolve" =>
        /\ (call.step = 2 => call.res2 = call.res1)
        /\ (call.step >= 1 /\ call.fmt = "" /\ TableExt(call.ctype) # ""
              /\ EndsWith(call.base, <<".", TableExt(call.ctype)>>)
                => call.res1 = call.base)
\* Report.pdf was resolved against text/csv to Report.csv, and that again
C19_Witness ==
    /\ call.fn = "resolve" /\ call.step = 2 /\ call.fmt = ""
    /\ call.base = <<"Report", ".", "pdf">> /\ call.ctype = "text/csv"
    /\ call.res1 = <<"Report", ".", "csv">> /\ call.res2 = call.res1

----------------------------------------------------------------------------
(* The identifier extractors: extractFileId (utils.ts 4-34) and
   extractGoogleDriveFileId (route.ts 813-837).  A link is a sequence of
   tokens: the delimiters "/", "?", "&", "=", the host names, words and
   identifiers; no run of tokens spells another token.  A regular expression
   is a sequence of literal tokens (AnyWord stands for \w+) followed by a
   capture group [^...]+ that stops at the characters of `stops'. *)

AnyWord == "\\w+"

\* mutant: \w+ does not take "spreadsheets"
WordTokens_NoSheets ==
    {"document", "presentation", "forms", "file", "d", "open", "uc", "id", "view",
     "edit", "usp", "sharing", "export", "download", "drive", "folders", "ID1"}

\* tokens made of word characters [A-Za-z0-9_] only
WordTokens == {"document", "spreadsheets", "presentation", "forms", "file", "d",
               "open", "uc", "id", "view", "edit", "usp", "sharing", "export",
               "download", "drive", "folders", "ID1"}

\* /drive\.google\.com\/file\/d\/([^\/\?]+)/
FilePattern ==
    [lit |-> <<"drive.google.com", "/", "file", "/", "d", "/">>, stops |-> {"/", "?"}]
\* /drive\.google\.com\/open\?id=([^&]+)/
OpenPattern ==
    [lit |-> <<"drive.google.com", "/", "open", "?", "id", "=">>, stops |-> {"&"}]
\* mutant: the editor pattern names the document editor
EditorPattern_DocumentOnly ==
    [lit |-> <<"docs.google.com", "/", "document", "/", "d", "/">>, stops |-> {"/", "?"}]
\* /docs\.google\.com\/\w+\/d\/([^\/\?]+)/
EditorPattern ==
    [lit |-> <<"docs.google.com", "/", AnyWord, "/", "d", "/">>, stops |-> {"/", "?"}]
\* /drive\.google\.com\/uc\?id=([^&]+)/
UcPattern ==
    [lit |-> <<"drive.google.com", "/", "uc", "?", "id", "=">>, stops |-> {"&"}]
\* /docs\.google\.com\/spreadsheets\/d\/([^\/\?]+)/
SpreadsheetsPattern ==
    [lit |-> <<"docs.google.com", "/", "spreadsheets", "/", "d", "/">>, stops |-> {"/", "?"}]
\* /docs\.google\.com\/presentation\/d\/([^\/\?]+)/
PresentationPattern ==
    [lit |-> <<"docs.google.com", "/", "presentation", "/", "d", "/">>, stops |-> {"/", "?"}]

\* The extractFileId of the page component (part_001 21-36): its patterns name
\* no host, and their capture group [a-zA-Z0-9_-]+ stops at every token that
\* holds another character
AnyQueryMark == "[?&]"
NotIdTokens == {"/", "?", "&", "=", "https:", "drive.google.com", "docs.google.com",
                "example.com"}
\* /\/file\/d\/([a-zA-Z0-9_-]+)/
PageFilePattern == [lit |-> <<"/", "file", "/", "d", "/">>, stops |-> NotIdTokens]
\* /[?&]id=([a-zA-Z0-9_-]+)/
PageIdPattern == [lit |-> <<AnyQueryMark, "id", "=">>, stops |-> NotIdTokens]
\* /\/folders\/([a-zA-Z0-9_-]+)/
PageFoldersPattern == [lit |-> <<"/", "folders", "/">>, stops |-> NotIdTokens]
\* /\/document\/d\/([a-zA-Z0-9_-]+)/
PageDocumentPattern == [lit |-> <<"/", "document", "/", "d", "/">>, stops |-> NotIdTokens]
\* /\/spreadsheets\/d\/([a-zA-Z0-9_-]+)/
PageSpreadsheetsPattern ==
    [lit |-> <<"/", "spreadsheets", "/", "d", "/">>, stops |-> NotIdTokens]
\* /\/presentation\/d\/([a-zA-Z0-9_-]+)/
PagePresentationPattern ==
    [lit |-> <<"/", "presentation", "/", "d", "/">>, stops |-> NotIdTokens]

\* mutant: the patterns of an identifier in the query are tried first
PatternsOf_GenericFirst(fn) ==
    IF fn = "page.extractFileId"
    THEN <<PageIdPattern, PageFilePattern, PageFoldersPattern, PageDocumentPattern,
           PageSpreadsheetsPattern, PagePresentationPattern>>
    ELSE <<OpenPattern, UcPattern, FilePattern, EditorPattern>>

\* the patterns arrays, in the order they are tried
PatternsOf(fn) ==
    IF fn = "extractFileId"
    THEN <<FilePattern, OpenPattern, EditorPattern, UcPattern,
           SpreadsheetsPattern, PresentationPattern>>
    ELSE IF fn = "page.extractFileId"
    THEN <<PageFilePattern, PageIdPattern, PageFoldersPattern, PageDocumentPattern,
           PageSpreadsheetsPattern, PagePresentationPattern>>
    ELSE <<FilePattern, OpenPattern, EditorPattern, UcPattern>>

\* the literal part of p matches url at position i, and the capture group has
\* at least one character to take
MatchesAt(url, i, p) ==
    /\ i + Len(p.lit) <= Len(url)
    /\ \A k \in 1..Len(p.lit) :
          IF p.lit[k] = AnyWord THEN url[i + k - 1] \in WordTokens
          ELSE IF p.lit[k] = AnyQueryMark THEN url[i + k - 1] \in {"?", "&"}
          ELSE url[i + k - 1] = p.lit[k]
    /\ url[i + Len(p.lit)] \notin p.stops

\* the greedy capture from position j: every token up to the first stop
RECURSIVE Capture(_, _, _)
Capture(url, j, stops) ==
    IF j > Len(url) \/ url[j] \in stops THEN << >>
    ELSE <<url[j]>> \o Capture(url, j + 1, stops)

\* url.match(pattern): match[1] of the leftmost match, << >> when there is none
Match1(url, p) ==
    IF \E i \in 1..Len(url) : MatchesAt(url, i, p)
    THEN LET i == CHOOSE i \in 1..Len(url) :
                     /\ MatchesAt(url, i, p)
                     /\ \A j \in 1..(i - 1) : ~MatchesAt(url, j, p)
         IN Capture(url, i + Len(p.lit), p.stops)
    ELSE << >>

\* for (const pattern of patterns) { ... return match[1] }  return null
RECURSIVE FirstMatch(_, _, _)
FirstMatch(url, patterns, n) ==
    IF n > Len(patterns) THEN << >>
    ELSE IF Match1(url, patterns[n]) # << >> THEN Match1(url, patterns[n])
    ELSE FirstMatch(url, patterns, n + 1)

\* extractFileId(url) and extractGoogleDriveFileId(url); << >> : null
Extract(fn, url) == FirstMatch(url, PatternsOf(fn), 1)

\* the links applied: an optional scheme, a body of one shape around an
\* identifier, and what trails it
X_Schemes == {<< >>, <<"https:", "/", "/">>}
X_Ids == {"ID1", "a-b_2"}
X_Editors == {"document", "spreadsheets", "presentation", "forms"}
X_Shapes == {"file", "open", "uc", "ucexport", "folders", "hostless", "otherhost",
             "noid"} \cup X_Editors
X_Trails == {<< >>, <<"/", "view">>, <<"?", "usp", "=", "sharing">>,
             <<"/", "edit", "?", "usp", "=", "sharing">>,
             <<"&", "export", "=", "download">>}

Body(shape, id) ==
    CASE shape = "file" -> <<"drive.google.com", "/", "file", "/", "d", "/", id>>
      [] shape = "open" -> <<"drive.google.com", "/", "open", "?", "id", "=", id>>
      [] shape = "uc" -> <<"drive.google.com", "/", "uc", "?", "id", "=", id>>
      [] shape = "ucexport" ->
            <<"drive.google.com", "/", "uc", "?", "export", "=", "download",
              "&", "id", "=", id>>
      [] shape = "folders" -> <<"drive.google.com", "/", "drive", "/", "folders", "/", id>>
      [] shape = "hostless" -> <<"/", "file", "/", "d", "/", id>>
      [] shape = "otherhost" -> <<"example.com", "/", "file", "/", "d", "/", id>>
      [] shape = "noid" -> <<"drive.google.com", "/", "file", "/", "d", "/">>
      [] OTHER -> <<"docs.google.com", "/", shape, "/", "d", "/", id>>

InitExtract ==
    /\ NoRequest
    /\ call \in {[fn |-> f, shape |-> sh, id |-> id, trail |-> t,
                  url |-> sc \o Body(sh, id) \o t, done |-> FALSE, res |-> << >>] :
                    f \in {"extractFileId", "extractGoogleDriveFileId"},
                    sh \in X_Shapes, id \in X_Ids, t \in X_Trails, sc \in X_Schemes}

\* extractFileId(url)
ExtractFileId ==
    /\ call.fn = "extractFileId" /\ ~call.done
    /\ call' = [call EXCEPT !.done = TRUE, !.res = Extract("extractFileId", call.url)]
    /\ UNCHANGED RequestVars

\* extractGoogleDriveFileId(url)
ExtractGoogleDriveFileId ==
    /\ call.fn = "extractGoogleDriveFileId" /\ ~call.done
    /\ call' = [call EXCEPT !.done = TRUE,
                            !.res = Extract("extractGoogleDriveFileId", call.url)]
    /\ UNCHANGED RequestVars

NextExtract == ExtractFileId \/ ExtractGoogleDriveFileId

SpecExtract == InitExtract /\ [][NextExtract]_vars

Extracted == call.fn \in {"extractFileId", "extractGoogleDriveFileId"} /\ call.done

\* the link holds a path shape, whose identifier ends at "/" or "?", or a
\* query shape, whose identifier ends at "&"
PathShape == call.shape \in {"file", "noid"} \cup X_Editors
QueryShape == call.shape \in {"open", "uc"}
\* the identifier written into the link (none in the shape "noid")
WrittenId == IF call.shape = "noid" THEN << >> ELSE <<call.id>>
\* the characters after the shape's prefix up to the first of `stops': the
\* trails of the model hold no second delimiter of the other kind
RunUpTo(stops) ==
    IF call.trail = << >> \/ Head(call.trail) \in stops
    THEN WrittenId
    ELSE WrittenId \o call.trail

\* C20 as the specification states it: the editor paths are those of
\* document, spreadsheets and presentation, and every trailer is allowed
C20_Original ==
    Extracted =>
        IF call.shape \in {"file", "open", "uc", "document", "spreadsheets",
                           "presentation"}
        THEN call.res = <<call.id>>
        ELSE call.res = << >>

(* C20  For every link that holds drive.google.com/file/d/{id},
   drive.google.com/open?id={id}, drive.google.com/uc?id={id} or
   docs.google.com/{word}/d/{id} for any word, the extractor returns exactly
   {id}, where {id} is the non-empty run of characters up to the next "/" or
   "?" (path shapes), or up to the next "&" (query shapes), or the end of the
   string; it returns null for a string in which none of these occurs. *)
C20_ShapesExtracted ==
    Extracted =>
        /\ (PathShape => call.res = RunUpTo({"/", "?"}))
        /\ (QueryShape => call.res = RunUpTo({"&"}))
        /\ (PathShape /\ call.shape # "noid"
              /\ (call.trail = << >> \/ Head(call.trail) \in {"/", "?"})
                => call.res = <<call.id>>)
        /\ (QueryShape /\ (call.trail = << >> \/ Head(call.trail) = "&")
                => call.res = <<call.id>>)
        /\ (~PathShape /\ ~QueryShape => call.res = << >>)
\* the identifier of a forms link with trailing path segment and query string
\* was extracted
C20_Witness ==
    /\ Extracted /\ call.shape = "forms" /\ call.id = "a-b_2"
    /\ call.url = <<"https:", "/", "/", "docs.google.com", "/", "forms", "/", "d", "/",
                    "a-b_2", "/", "edit", "?", "usp", "=", "sharing">>
    /\ call.res = <<"a-b_2">>

----------------------------------------------------------------------------
(* The order of the patterns: the extractors applied to links that hold both
   drive.google.com/file/d/{a} and an identifier {b} in the query *)

\* the two parts of such a link
SpecificPart(a) == <<"drive.google.com", "/", "file", "/", "d", "/", a>>
GenericPart(kind, b) == <<"drive.google.com", "/", kind, "?", "id", "=", b>>

\* the specific part first, or the generic part first
BothShapes(order, kind, a, b) ==
    IF order = "specific first"
    THEN SpecificPart(a) \o <<"/", "view", "?", "u", "=">> \o GenericPart(kind, b)
    ELSE GenericPart(kind, b) \o <<"&", "u", "=">> \o SpecificPart(a)

InitPriority ==
    /\ NoRequest
    /\ call \in {[fn |-> f, order |-> o, a |-> a, b |-> b,
                  url |-> sc \o BothShapes(o, k, a, b), done |-> FALSE, res |-> << >>] :
                    f \in {"extractFileId", "extractGoogleDriveFileId",
                           "page.extractFileId"},
                    o \in {"specific first", "generic first"}, k \in {"open", "uc"},
                    a \in X_Ids, b \in X_Ids, sc \in X_Schemes}

\* extractFileId(url) of the page component
PageExtractFileId ==
    /\ call.fn = "page.extractFileId" /\ ~call.done
    /\ call' = [call EXCEPT !.done = TRUE,
                            !.res = Extract("page.extractFileId", call.url)]
    /\ UNCHANGED RequestVars

NextPriority == ExtractFileId \/ ExtractGoogleDriveFileId \/ PageExtractFileId

SpecPriority == InitPriority /\ [][NextPriority]_vars

(* C21  An extractor applied to a link that matches both the specific pattern
   file/d/{a} and a generic pattern id={b} returns {a}, whichever of the two
   comes first in the link. *)
C21_SpecificWins ==
    (call.fn \in {"extractFileId", "extractGoogleDriveFileId", "page.extractFileId"}
       /\ call.done) => call.res = <<call.a>>
\* the page's extractor was applied to a link whose query identifier comes
\* first, and returned the identifier of the file/d part
C21_Witness ==
    /\ call.fn = "page.extractFileId" /\ call.done
    /\ call.order = "generic first" /\ call.a = "ID1" /\ call.b = "a-b_2"
    /\ call.res = <<"ID1">>

----------------------------------------------------------------------------
(* The file-info handlers: GET (route.ts 635-744) and the legacy handler
   (route.ts 749-808).  h is "info.GET" or "info.handler"; fileResponse holds
   the answer of the view page (fallbackResponse); out is the JSON response. *)

\* what the metadata request answers: data.name, data.mimeType ("" : absent)
\* and data.capabilities?.canDownload
I_Mimes == GoogleAppsMimes \cup {"", "application/pdf"}
I_Statuses == {200, 403, 404, 500}
I_MetaAnswers ==
    {[err |-> TRUE, status |-> 0, name |-> << >>, mimeType |-> "", canDownload |-> FALSE]}
    \cup {[err |-> FALSE, status |-> st, name |-> << >>, mimeType |-> "",
           canDownload |-> FALSE] : st \in I_Statuses \ {200}}
    \cup {[err |-> FALSE, status |-> 200, name |-> <<"Report", ".", "pdf">>,
           mimeType |-> m, canDownload |-> c] : m \in I_Mimes, c \in BOOLEAN}

\* what the view page answers: fallbackResponse.data is a string or not; the
\* text between <title> and </title> (<< >> : no title element, or an empty
\* one); the viewer marker the page holds
GoogleDriveSuffix == " - Google Drive"
I_Titles == {<< >>, <<"Report">>, <<"Report", GoogleDriveSuffix>>,
             <<"Report", GoogleDriveSuffix, "copy", GoogleDriveSuffix>>}
I_Markers == {"", "pdf.js", "PDF viewer"}
I_ViewAnswers ==
    {[err |-> TRUE, status |-> 0, isString |-> FALSE, title |-> << >>, marker |-> ""]}
    \cup {[err |-> FALSE, status |-> st, isString |-> b, title |-> t, marker |-> k] :
            st \in {200, 404}, b \in BOOLEAN, t \in I_Titles, k \in I_Markers}
NoViewAnswer == [err |-> FALSE, status |-> 0, isString |-> FALSE, title |-> << >>,
                 marker |-> ""]

\* titleMatch[1].replace(" - Google Drive", ""): the first occurrence is removed
RECURSIVE ReplaceFirst(_)
ReplaceFirst(t) ==
    IF t = << >> THEN << >>
    ELSE IF Head(t) = GoogleDriveSuffix THEN Tail(t)
    ELSE <<Head(t)>> \o ReplaceFirst(Tail(t))

\* mutant: the title is taken as it is
ScrapedName_Raw(id, v) ==
    IF v.isString /\ v.title # << >> THEN v.title ELSE <<"file_", id>>
\* route.ts 663-674
ScrapedName(id, v) ==
    IF v.isString /\ v.title # << >> THEN ReplaceFirst(v.title) ELSE <<"file_", id>>

\* route.ts 677-681
isProbablyPdf(v) == v.isString /\ v.marker \in {"pdf.js", "PDF viewer"}

\* exportOptions: null of the legacy handler, which is no sequence of formats
NullOptions == <<"null">>

\* the JSON responses
NoInfo == [kind |-> "none", status |-> 0, id |-> "", name |-> << >>, mimeType |-> "",
           isViewOnly |-> FALSE, canDownload |-> FALSE, isGoogleApps |-> FALSE,
           exportOptions |-> << >>, error |-> ""]
InfoError(st, msg) == [NoInfo EXCEPT !.kind = "error", !.status = st, !.error = msg]

\* route.ts 683-693
DegradedRecord(id, v) ==
    [NoInfo EXCEPT !.kind = "record", !.status = 200, !.id = id,
                   !.name = ScrapedName(id, v),
                   !.mimeType = IF isProbablyPdf(v) THEN "application/pdf"
                                ELSE "application/octet-stream",
                   !.isViewOnly = TRUE, !.canDownload = FALSE, !.isGoogleApps = FALSE,
                   !.exportOptions = IF isProbablyPdf(v) THEN <<"pdf">> ELSE << >>]

\* mutant: a document is also offered as odt
InfoGET_exportOptions_Odt(m) ==
    IF ~StartsWithGoogleApps(m) THEN << >>
    ELSE IF m = "application/vnd.google-apps.document" THEN <<"pdf", "docx", "odt">>
    ELSE <<"pdf">>

\* route.ts 711-726
InfoGET_exportOptions(m) ==
    IF ~StartsWithGoogleApps(m) THEN << >>
    ELSE CASE m = "application/vnd.google-apps.document" -> <<"pdf", "docx", "txt", "rtf">>
           [] m = "application/vnd.google-apps.spreadsheet" -> <<"xlsx", "csv", "pdf">>
           [] m = "application/vnd.google-apps.presentation" -> <<"pptx", "pdf">>
           [] OTHER -> <<"pdf">>

\* route.ts 796-802
InfoHandler_exportOptions(m) ==
    IF ~StartsWithGoogleApps(m) THEN NullOptions
    ELSE CASE m = "application/vnd.google-apps.document" -> <<"pdf", "docx">>
           [] m = "application/vnd.google-apps.spreadsheet" -> <<"pdf", "xlsx">>
           [] m = "application/vnd.google-apps.presentation" -> <<"pdf", "pptx">>
           [] OTHER -> <<"pdf">>

\* route.ts 728-736 and 788-803; isGoogleApps is undefined, and so absent from
\* the JSON, when data.mimeType is absent: it is FALSE here
InfoRecord(id, a, options) ==
    [NoInfo EXCEPT !.kind = "record", !.status = 200, !.id = id, !.name = a.name,
                   !.mimeType = a.mimeType, !.canDownload = a.canDownload,
                   !.isGoogleApps = StartsWithGoogleApps(a.mimeType),
                   !.exportOptions = options]

InitInfo ==
    /\ h \in {"info.GET", "info.handler"}
    /\ fileId \in {"", "f1"} \cup (IF h = "info.handler" THEN {FileIdArray} ELSE {})
    /\ format = "" /\ forcePdf = FALSE /\ viewOnly = FALSE
    /\ pc = "start" /\ fileName = << >> /\ mimeType = ""
    /\ fileResponse = NoViewAnswer /\ exportFormat = ""
    /\ inflight = "none" /\ log = << >> /\ stat = << >> /\ out = NoInfo
    /\ call = NoCall

\* route.ts 636-640
InfoGET_Start ==
    /\ h = "info.GET" /\ pc = "start"
    /\ IF fileId = "" THEN Finish(InfoError(400, "File ID is required"))
       ELSE Issue("meta")
    /\ UNCHANGED <<Request, fileName, mimeType, fileResponse, stat>>

\* route.ts 644-651, 706-743
InfoGET_Metadata ==
    /\ h = "info.GET" /\ pc = "meta"
    /\ \E a \in I_MetaAnswers :
        /\ Answered(a)
        /\ IF a.err THEN Finish(InfoError(500, "Failed to get file information"))
           ELSE IF a.status # 200 THEN Issue("view")
           ELSE Finish(InfoRecord(fileId, a, InfoGET_exportOptions(a.mimeType)))
    /\ UNCHANGED <<Request, fileName, mimeType, fileResponse>>

\* route.ts 653-703
InfoGET_View ==
    /\ h = "info.GET" /\ pc = "view"
    /\ \E v \in I_ViewAnswers :
        /\ Answered(v)
        /\ fileResponse' = v
        /\ IF v.err THEN Finish(InfoError(404, "File not found or not accessible"))
           ELSE Finish(DegradedRecord(fileId, v))
    /\ UNCHANGED <<Request, fileName, mimeType>>

\* route.ts 753-757
InfoHandler_Start ==
    /\ h = "info.handler" /\ pc = "start"
    /\ IF fileId = "" \/ fileId = FileIdArray
       THEN Finish(InfoError(400, "File ID is required"))
       ELSE Issue("meta")
    /\ UNCHANGED <<Request, fileName, mimeType, fileResponse, stat>>

\* route.ts 761-807
InfoHandler_Metadata ==
    /\ h = "info.handler" /\ pc = "meta"
    /\ \E a \in I_MetaAnswers :
        /\ Answered(a)
        /\ IF a.err THEN Finish(InfoError(500, "Failed to get file information"))
           ELSE IF a.status # 200
           THEN Finish(InfoError(404, "File not found or not accessible"))
           ELSE Finish(InfoRecord(fileId, a, InfoHandler_exportOptions(a.mimeType)))
    /\ UNCHANGED <<Request, fileName, mimeType, fileResponse>>

NextInfo ==
    \/ InfoGET_Start
    \/ InfoGET_Metadata
    \/ InfoGET_View
    \/ InfoHandler_Start
    \/ InfoHandler_Metadata

SpecInfo == InitInfo /\ [][NextInfo]_vars

InfoDone == h \in {"info.GET", "info.handler"} /\ pc = "done"

(* C22  Once an identifier is present, the metadata operation answers with a
   FileMetadata record, whatever the metadata request and the view-page fetch
   answer: it never answers with an error (404, 500). *)
C22_AlwaysRecord ==
    (InfoDone /\ Len(log) >= 1) => out.kind = "record" /\ out.status = 200

(* C23  In the metadata response exportOptions is the empty sequence whenever
   isGoogleApps is false, in the normal and in the degraded record. *)
C23_OptionsOnlyForApps ==
    (InfoDone /\ out.kind = "record" /\ ~out.isGoogleApps) => out.exportOptions = << >>

\* the degraded record was sent: the metadata request answered with another
\* status than 200 and the view page was fetched
DegradedSent ==
    /\ h = "info.GET" /\ pc = "done" /\ out.kind = "record"
    /\ log = <<"meta", "view">>

\* C24 as the specification states it: the name is the title of the view page
C24_Original ==
    DegradedSent =>
        out.name = IF fileResponse.isString /\ fileResponse.title # << >>
                   THEN fileResponse.title ELSE <<"file_", fileId>>

\* the title without the first " - Google Drive" it holds
RECURSIVE SuffixDropped(_, _)
SuffixDropped(t, i) ==
    IF i > Len(t) THEN t
    ELSE IF t[i] = GoogleDriveSuffix THEN SubSeq(t, 1, i - 1) \o SubSeq(t, i + 1, Len(t))
    ELSE SuffixDropped(t, i + 1)

(* C24  When the metadata request answers with a non-success status and the
   view page is fetched, the degraded record's name is the view page's title
   without its first " - Google Drive" when the page is text with a non-empty
   title, else the default name file_{id}; its MIME type is application/pdf if
   and only if the page is text holding "pdf.js" or "PDF viewer", and
   application/octet-stream otherwise. *)
C24_DegradedRecord ==
    DegradedSent =>
        /\ stat[1] # 200 /\ stat[1] # 0
        /\ out.name = IF fileResponse.isString /\ fileResponse.title # << >>
                      THEN SuffixDropped(fileResponse.title, 1)
                      ELSE <<"file_", fileId>>
        /\ (out.mimeType = "application/pdf") <=>
              (fileResponse.isString /\ fileResponse.marker \in {"pdf.js", "PDF viewer"})
        /\ out.mimeType \in {"application/pdf", "application/octet-stream"}
\* a degraded record named Report from the title "Report - Google Drive" of a
\* page holding the PDF viewer marker
C24_Witness ==
    /\ DegradedSent /\ stat[1] = 403
    /\ fileResponse.title = <<"Report", GoogleDriveSuffix>>
    /\ fileResponse.marker = "PDF viewer"
    /\ out.name = <<"Report">> /\ out.mimeType = "application/pdf"

----------------------------------------------------------------------------
(* C25  In the download GET handler a metadata probe that fails (a status other
   than 200, or a failure of the request) does not end the request: the first
   attempt of the chain is issued next, with the default name file_{id} and
   the unknown MIME type application/octet-stream in place of the metadata. *)
C25_ProbeFailureTolerated ==
    (h = "GET" /\ Len(stat) >= 1 /\ stat[1] # 200) =>
        /\ Len(log) >= 2 /\ log[2] \in {"print", "export", "direct"}
        /\ fileName = <<"file_", fileId>>
        /\ mimeType = "application/octet-stream"
\* the probe failed in transport and the direct download delivered file_f1
C25_Witness ==
    /\ h = "GET" /\ Len(stat) >= 2 /\ stat[1] = 0
    /\ log[2] = "direct" /\ Success /\ out.via = "direct"
    /\ SubSeq(out.filename, 1, 2) = <<"file_", "f1">>

----------------------------------------------------------------------------
(* The download handlers and the file-info handlers together *)

InitBoth == Init \/ InitInfo
NextBoth == Next \/ NextInfo
SpecBoth == InitBoth /\ [][NextBoth]_vars

\* the identifier is missing, or is not a single string
MissingId == fileId = "" \/ fileId = FileIdArray

(* C26  When the identifier is missing, or is not a single string in a legacy
   handler, the download and the file-info operations answer 400 at once: no
   upstream request is issued, before or after, and nothing is tried again. *)
C26_MissingIdRefused ==
    MissingId =>
        /\ log = << >> /\ stat = << >> /\ inflight = "none"
        /\ pc \in {"start", "done"}
        /\ (pc = "done" => out.kind = "error" /\ out.status = 400
                           /\ out.error = "File ID is required")
\* the legacy download handler refused an array of identifiers
C26_Witness ==
    /\ h = "handler" /\ fileId = FileIdArray /\ pc = "done"
    /\ out.status = 400 /\ log = << >>

----------------------------------------------------------------------------
(* C27  On Failure the download operation answers with a structured error that
   carries a reason and a remediation hint, and whose status tells the cases
   apart: 404 when the file is not found upstream, 403 for a permission issue,
   500 only for an unexpected failure. *)
Failure == h \in {"GET", "handler"} /\ pc = "done" /\ ~MissingId /\ ~Delivered
\* every upstream request was answered 404, or failed in transport
NotFoundUpstream == \A i \in 1..Len(stat) : stat[i] = 404
UnexpectedFailure == \E i \in 1..Len(stat) : stat[i] = 0 \/ stat[i] = 500
C27_ClassifiedError ==
    Failure =>
        /\ out.kind = "error" /\ out.error # "" /\ out.suggestion # ""
        /\ out.status \in {403, 404, 500}
        /\ (NotFoundUpstream => out.status = 404)
        /\ (out.status = 500 => UnexpectedFailure)

\* `attachment; filename="${finalFilename}"` as tokens
DispositionHeader(o) == <<o.disposition, "; filename=", Quote>> \o o.filename \o <<Quote>>

\* the quotes of a header that are not escaped
BareQuotes(hd) == {i \in 1..Len(hd) : hd[i] = Quote}

(* C28  On every Success the Content-Disposition header is attachment with the
   filename in double quotes and no bare double quote inside the filename: the
   header holds exactly one quoted filename. *)
C28_QuotedFilename ==
    Success =>
        LET hd == DispositionHeader(out) IN
        /\ hd[1] = "attachment"
        /\ BareQuotes(hd) = {3, Len(hd)}

----------------------------------------------------------------------------
(* C29  Within one invocation of a download handler the attempts run one after
   the other: at most one upstream request is in flight, and a request is
   issued only after the answer, or the failure, of the one before it has been
   taken. *)
C29_Sequential ==
    h \in {"GET", "handler"} =>
        /\ Len(stat) <= Len(log) /\ Len(log) <= Len(stat) + 1
        /\ (inflight # "none" <=> Len(log) = Len(stat) + 1)
        /\ (inflight # "none" => inflight = log[Len(log)])
        /\ (pc = "done" => inflight = "none")
\* the legacy handler waits for its fourth request, the three before it
\* answered
C29_Witness ==
    /\ h = "handler" /\ Len(log) = 4 /\ Len(stat) = 3
    /\ inflight = log[4] /\ inflight # "none"

----------------------------------------------------------------------------
(* The stream deliveries of the legacy download handler: after the headers are
   set, `return response.data.pipe(res)` (route.ts 474, 513, 534, 558, 587,
   613).  The handler registers no listener on either stream and holds no
   abort signal; what follows is Readable.pipe: each chunk read upstream is
   written to res, the first write sends the status line (200, no other status
   was set), the end of the upstream stream ends res, an error of the upstream
   stream is not forwarded to res, and the close of res only unpipes it. *)

MaxChunks == 3

PipeSites == {"direct", "export", "confirm", "print", "preview", "embed"}

InitStream ==
    /\ NoRequest
    /\ call \in {[fn |-> "pipe", site |-> st, chunks |-> n, written |-> 0,
                  upstream |-> "open", caller |-> "connected",
                  statusSent |-> 0, ended |-> FALSE] :
                    st \in PipeSites, n \in 1..MaxChunks}

Piping == call.fn = "pipe" /\ call.upstream = "open" /\ ~call.ended

\* 'data': dest.write(chunk)
Pipe_Data ==
    /\ Piping /\ call.caller = "connected" /\ call.written < call.chunks
    /\ call' = [call EXCEPT !.written = @ + 1, !.statusSent = 200]
    /\ UNCHANGED RequestVars

\* 'end': dest.end()
Pipe_End ==
    /\ Piping /\ call.caller = "connected" /\ call.written = call.chunks
    /\ call' = [call EXCEPT !.upstream = "ended", !.ended = TRUE, !.statusSent = 200]
    /\ UNCHANGED RequestVars

\* 'error' of the upstream stream: nothing is done to res
Pipe_UpstreamError ==
    /\ Piping /\ call.caller = "connected" /\ call.written < call.chunks
    /\ call' = [call EXCEPT !.upstream = "failed"]
    /\ UNCHANGED RequestVars

\* 'close' of res, the caller is gone: the upstream stream is unpiped, and
\* neither destroyed nor aborted
Pipe_CallerClose ==
    /\ Piping /\ call.caller = "connected"
    /\ call' = [call EXCEPT !.caller = "disconnected"]
    /\ UNCHANGED RequestVars

NextStream == Pipe_Data \/ Pipe_End \/ Pipe_UpstreamError \/ Pipe_CallerClose

SpecStream == InitStream /\ [][NextStream]_vars

\* the transfer was cut before the whole payload was written
Interrupted ==
    /\ call.fn = "pipe"
    /\ call.caller = "disconnected" \/ call.upstream = "failed"
    /\ call.written < call.chunks

(* C30  When the caller disconnects, or the upstream read fails, while a
   payload is streamed, the upstream read does not stay open and the partial
   transfer has not been reported to the caller with status 200. *)
C30_NoPartialSuccess ==
    Interrupted => call.upstream # "open" /\ call.statusSent # 200

----------------------------------------------------------------------------
(* C31  Whenever the view-only / forced-PDF path of the download GET handler
   delivers a response, its Content-Type is application/pdf and its filename
   ends in ".pdf", whatever the metadata name, the content type the upstream
   answer declares and the requested format. *)
C31_ViewOnlyDeliversPdf ==
    (h = "GET" /\ Delivered /\ out.via \in {"print", "embed"}) =>
        /\ out.ctype = "application/pdf"
        /\ EndsWith(out.filename, <<".", "pdf">>)
\* viewOnly on a PDF with format xlsx requested: the print answer was refused
\* and the embedded preview of 40,000 bytes, declared text/csv, was delivered
C31_Witness ==
    /\ h = "GET" /\ viewOnly /\ format = "xlsx" /\ mimeType = "application/pdf"
    /\ log = <<"meta", "print", "embed">> /\ stat = <<200, 200, 200>>
    /\ Delivered /\ out.via = "embed"
    /\ out.body.bytes = 40000 /\ out.body.ctype = "text/csv"
    /\ fileName = <<"data">> /\ out.filename = <<"data", ".", "pdf">>

----------------------------------------------------------------------------
(* The download GET handler on its own, every request being answered in the
   end: each await of the handler resumes *)

InitGET == Init /\ h = "GET"
NextGET ==
    \/ GET_Start
    \/ GET_Metadata
    \/ GET_Print
    \/ GET_Embed
    \/ GET_Export
    \/ GET_Direct
    \/ GET_Alt
    \/ GET_Last
SpecGET == InitGET /\ [][NextGET]_vars /\ WF_vars(NextGET)

\* no request is issued twice, and no two requests issued have the same URL
EachUrlOnce ==
    \A i, j \in 1..Len(log) : i # j => Url("GET", log[i]) # Url("GET", log[j])

\* the response is sent when the handler ends, and not before
OneResponse == (pc = "done") <=> (out.kind # "none")

\* C32 as stated: at most 5 upstream requests
C32_Original == Len(log) <= 5

\* the export request was answered 200 without a body: line 246 refuses the
\* answer and the direct download follows
ExportFellThrough == Issued("export") /\ Issued("direct")

(* C32  Every invocation of the download GET handler, each request being
   answered or failing in the end, ends with exactly one response, after at
   most 6 upstream requests (metadata probe, print, embedded preview, export,
   and at most two direct-download requests), and after at most 5 unless the
   export request was answered 200 without a body; no URL is requested
   twice. *)
C32_Terminates ==
    /\ [](Len(log) <= 6 /\ EachUrlOnce /\ OneResponse)
    /\ [](~ExportFellThrough => Len(log) <= 5)
    /\ [][pc # "done"]_vars
    /\ <>(pc = "done")
\* six requests were made: the export of a native-app document answered 200
\* without a body after the view-only attempts, and the direct download went
\* on to the alternate URL
C32_Witness ==
    /\ pc = "done" /\ out.kind # "none"
    /\ log = <<"meta", "print", "embed", "export", "direct", "alt">>

----------------------------------------------------------------------------
\* the place of the export request among the requests issued (0 : not issued)
ExportAt == IF Issued("export") THEN CHOOSE i \in 1..Len(log) : log[i] = "export" ELSE 0

\* C33 as stated: with a native-app MIME type the direct download, the last
\* resort and the redirect to the viewer are never reached
C33_Original ==
    (h = "GET" /\ StartsWithGoogleApps(mimeType)) =>
        /\ ~Issued("direct") /\ ~Issued("last")
        /\ out.kind # "redirect"

(* C33  In the download GET handler a native-app MIME type leads to the export
   request unless the view-only path delivered before; an export answer of
   another status than 200, or a failure of the request, ends the request
   with the 500 error; an export answer of status 200 with a body is
   delivered; an export answer of status 200 without a body is followed by
   the direct-download request. *)
C33_ExportOutcome ==
    (h = "GET" /\ StartsWithGoogleApps(mimeType)) =>
        /\ (pc = "done" => Issued("export") \/ out.via \in {"print", "embed"})
        /\ (Issued("direct") => Issued("export"))
        /\ LET i == ExportAt IN
           (i # 0 /\ Len(stat) >= i) =>
              IF stat[i] # 200
              THEN pc = "done" /\ out = Error500 /\ Len(log) = i
              ELSE \/ Delivered /\ out.via = "export" /\ out.body.data /\ Len(log) = i
                   \/ Len(log) > i /\ log[i + 1] = "direct"
\* the export of a spreadsheet was refused with 404 and the request ended 500
C33_Witness ==
    /\ h = "GET" /\ mimeType = "application/vnd.google-apps.spreadsheet"
    /\ log = <<"meta", "export">> /\ stat = <<200, 404>>
    /\ pc = "done" /\ out = Error500

----------------------------------------------------------------------------
(* One 200 answer of the direct download classified twice: as the primary
   answer (route.ts 291-298) and as the alternate answer (312-318) *)

InitClassify ==
    /\ NoRequest
    /\ call \in {[fn |-> "classify", header |-> c, mime |-> m, bytes |-> b,
                  step |-> 0, flagged |-> FALSE, altAccepted |-> FALSE] :
                    c \in V_Headers, m \in V_Mimes, b \in V_Sizes}

\* route.ts 291-298
ClassifyAsPrimary ==
    /\ call.fn = "classify" /\ call.step = 0
    /\ call' = [call EXCEPT
                  !.step = 1,
                  !.flagged = Interstitial(OrElse(call.header, call.mime),
                                           Resp(FALSE, 200, call.header, call.bytes, TRUE))]
    /\ UNCHANGED RequestVars

\* route.ts 312-318
ClassifyAsAlternate ==
    /\ call.fn = "classify" /\ call.step = 1
    /\ call' = [call EXCEPT
                  !.step = 2,
                  !.altAccepted = AltBodyAccepted(OrElse(call.header, call.mime),
                                           Resp(FALSE, 200, call.header, call.bytes, TRUE))]
    /\ UNCHANGED RequestVars

NextClassify == ClassifyAsPrimary \/ ClassifyAsAlternate

SpecClassify == InitClassify /\ [][NextClassify]_vars

(* C34  A 200 answer is accepted as the alternate answer if and only if the
   same answer is not flagged interstitial as the primary answer, for every
   declared content type and every byte length, 1,000,000 included. *)
C34_SamePredicate ==
    (call.fn = "classify" /\ call.step = 2) => (call.altAccepted <=> ~call.flagged)

----------------------------------------------------------------------------
(* The URL generators of the helper (route.ts 842-851) and the extractor
   applied to what they generate; an identifier is a sequence of at most
   MaxIdLen characters *)

MaxIdLen == 3

IdChars == {"a", "B", "7", "-", "_"}

RECURSIVE IdsUpTo(_)
IdsUpTo(n) ==
    IF n = 0 THEN {<< >>}
    ELSE LET shorter == IdsUpTo(n - 1) IN
         shorter \cup {Append(i, ch) : i \in shorter, ch \in IdChars}
Ids == IdsUpTo(MaxIdLen) \ {<< >>}

\* `https://drive.google.com/uc?export=download&id=${fileId}`
generateDownloadUrl(id) ==
    <<"https:", "/", "/", "drive.google.com", "/", "uc", "?", "export", "=", "download",
      "&", "id", "=">> \o id

\* `https://drive.google.com/uc?export=download&id=${fileId}&confirm=t`
generateLargeFileDownloadUrl(id) ==
    <<"https:", "/", "/", "drive.google.com", "/", "uc", "?", "export", "=", "download",
      "&", "id", "=">> \o id \o <<"&", "confirm", "=", "t">>

InitRoundTrip ==
    /\ NoRequest
    /\ call \in {[fn |-> "roundtrip", gen |-> g, id |-> i, step |-> 0,
                  url |-> << >>, res |-> << >>] :
                    g \in {"generateDownloadUrl", "generateLargeFileDownloadUrl"},
                    i \in Ids}

GenerateDownloadUrl ==
    /\ call.fn = "roundtrip" /\ call.step = 0 /\ call.gen = "generateDownloadUrl"
    /\ call' = [call EXCEPT !.step = 1, !.url = generateDownloadUrl(call.id)]
    /\ UNCHANGED RequestVars

GenerateLargeFileDownloadUrl ==
    /\ call.fn = "roundtrip" /\ call.step = 0 /\ call.gen = "generateLargeFileDownloadUrl"
    /\ call' = [call EXCEPT !.step = 1, !.url = generateLargeFileDownloadUrl(call.id)]
    /\ UNCHANGED RequestVars

\* extractGoogleDriveFileId(url) of the generated URL
ExtractBack ==
    /\ call.fn = "roundtrip" /\ call.step = 1
    /\ call' = [call EXCEPT !.step = 2,
                            !.res = Extract("extractGoogleDriveFileId", call.url)]
    /\ UNCHANGED RequestVars

NextRoundTrip == GenerateDownloadUrl \/ GenerateLargeFileDownloadUrl \/ ExtractBack

SpecRoundTrip == InitRoundTrip /\ [][NextRoundTrip]_vars

(* C35  Round trip: the identifier extracted from the URL a generator built
   for id is id. *)
C35_RoundTrip ==
    (call.fn = "roundtrip" /\ call.step = 2) => call.res = call.id

(* C36  An identifier an extractor returns is not empty and holds none of the
   URL delimiters "/", "?" and "&". *)
C36_NoDelimiters ==
    (Extracted /\ call.res # << >>) =>
        \A i \in 1..Len(call.res) : call.res[i] \notin {"/", "?", "&"}

(* C37  extractFileId and extractGoogleDriveFileId return the same result on
   every link: the spreadsheets and presentation patterns of extractFileId
   never decide. *)
C37_SameResult ==
    Extracted =>
        /\ Extract("extractFileId", call.url) = Extract("extractGoogleDriveFileId", call.url)
        /\ call.res = Extract("extractGoogleDriveFileId", call.url)
\* extractFileId took the identifier of a spreadsheets link, which its fifth
\* pattern matches
C37_Witness ==
    /\ Extracted /\ call.fn = "extractFileId" /\ call.shape = "spreadsheets"
    /\ Match1(call.url, SpreadsheetsPattern) = <<call.id>>
    /\ call.trail = <<"/", "edit", "?", "usp", "=", "sharing">>
    /\ call.res = <<call.id>> /\ call.id = "ID1"

----------------------------------------------------------------------------
(* A format the file-info GET handler advertised is requested from the download
   GET handler: the page offers the exportOptions of the record (part_001
   285-300) and sends the chosen one as format (116-120); the download handler
   looks its content type up (route.ts 257-258) *)

RequestAdvertised ==
    /\ h = "info.GET" /\ pc = "done" /\ call = NoCall
    /\ out.kind = "record" /\ out.isGoogleApps
    /\ \E k \in 1..Len(out.exportOptions) :
          call' = [fn |-> "export", format |-> out.exportOptions[k],
                   ctype |-> ExportContentType(out.exportOptions[k])]
    /\ UNCHANGED RequestVars

NextAdvertised == NextInfo \/ RequestAdvertised

SpecAdvertised == InitInfo /\ [][NextAdvertised]_vars

(* C38  Every export format the file-info GET handler advertises for a
   native-app type has an entry in the format -> MIME table of the download GET
   handler: requesting an advertised format never gives the content type
   application/octet-stream. *)
C38_AdvertisedFormatsMapped ==
    /\ \A m \in GoogleAppsMimes : \A k \in 1..Len(InfoGET_exportOptions(m)) :
          InfoGET_exportOptions(m)[k] \in DOMAIN contentTypeMap
    /\ call.fn = "export" =>
          /\ call.format \in DOMAIN contentTypeMap
          /\ call.ctype = contentTypeMap[call.format]
          /\ call.ctype # "application/octet-stream"
\* rtf, advertised for a document, was requested and is sent as application/rtf
C38_Witness ==
    /\ h = "info.GET" /\ out.mimeType = "application/vnd.google-apps.document"
    /\ out.exportOptions = <<"pdf", "docx", "txt", "rtf">>
    /\ call.fn = "export" /\ call.format = "rtf" /\ call.ctype = "application/rtf"

====
